---- MODULE Spec2Model ----
(***************************************************************************)
(* Model of the per-speaker segmentation engine of blindr:                 *)
(*   src/src/bot/audio_processing.py                                       *)
(*     AudioProcessor, BufferManager, TimeoutManager, StreamingAudioSink   *)
(*   src/src/audio/streaming_sink.py, src/src/audio/discord_interface.py   *)
(*     AudioProcessor.pcm_to_wav, TimeoutManager.schedule_timeout,         *)
(*     DiscordAudioSink                                                    *)
(*   src/src/streaming_audio_sink.py                                       *)
(*     StreamingAudioSink with the overlap and the prompt mode (SpecSink)  *)
(*                                                                         *)
(* Three execution contexts are modelled:                                  *)
(*   - the ingestion thread, which runs StreamingAudioSink.write;          *)
(*     its position is the record w (one python statement group per step); *)
(*   - the event loop, which runs the coroutines process_user_buffer and   *)
(*     timeout_handler; every coroutine is an entry of tasks, and running  *)
(*     names the one that is between two awaits (0: the loop is idle);     *)
(*   - the context that calls StreamingAudioSink.cleanup (py-cord when the *)
(*     recording stops, VoiceBot.cleanup); its position is the record c.   *)
(* Time is a discrete clock now, one unit per second.  Only the sleep of a  *)
(* timer and a transcription take time: the clock does not tick while the  *)
(* ingestion thread, cleanup or the event loop has a step it can take.     *)
(* Audio is modelled by byte counts; every appended chunk carries the      *)
(* number of the write that produced it, so that chunks can be followed.   *)
(* The statements of add_audio_chunk are one step: a packet is accepted     *)
(* when add_audio_chunk has returned.  The behaviours of Spec have one      *)
(* speaker (speakers); the state the code keeps for one speaker is         *)
(* disjoint from the state it keeps for another.                           *)
(* A coroutine that has ended is removed from tasks (the tasks after it     *)
(* move down by one).  The variables last and last_accept are history     *)
(* only: no action reads them in a guard.                                  *)
(***************************************************************************)
EXTENDS Integers, Sequences, FiniteSets, TLC

VARIABLES
    user_buffers,           \* BufferManager.user_buffers: user -> sequence of chunks
    user_last_activity,     \* BufferManager.user_last_activity: user -> time
    user_speech_start,      \* BufferManager.user_speech_start: user -> time
    user_last_packet_time,  \* BufferManager.user_last_packet_time: user -> time
    processing_locks,       \* BufferManager.processing_locks: user -> BOOLEAN
    user_timeout_tasks,     \* TimeoutManager.user_timeout_tasks: user -> task number
    tasks,                  \* the coroutines submitted to the event loop and not ended
    running,                \* the task the event loop is executing, or 0
    w,                      \* the write in progress on the ingestion thread
    c,                      \* the cleanup call
    now,                    \* the clock, in seconds
    nwrites,                \* number of write calls started
    speakers,               \* the users whose packets arrive (fixed by Init)
    limits,                 \* the bounds of the behaviour (fixed by Init)
    last,                   \* history: what the last step of the event loop did
    last_accept             \* history: user -> time of the last appended packet

vars == <<user_buffers, user_last_activity, user_speech_start, user_last_packet_time,
          processing_locks, user_timeout_tasks, tasks, running, w, c, now, nwrites,
          speakers, limits, last, last_accept>>

bufVars == <<user_buffers, user_last_activity, user_speech_start, user_last_packet_time>>

(***************************************************************************)
(* Bounds of the model.                                                    *)
(***************************************************************************)
MaxWrites == 3
MaxTime == 3
MaxCleanups == 1
\* the writes of the behaviours with degenerate packets, and with two speakers
FewWrites == 2
\* the calls made on a BufferManager and a TimeoutManager driven directly
MaxCalls == 5
\* the 16-bit words of a byte string handed to AudioProcessor
MaxWords == 4

Users == {"A", "B"}
UserOrder == <<"A", "B">>

\* One second of 48 kHz 16-bit stereo audio.
StreamSizes == {192000}

\* 0.1 s and 5 s of audio, for the behaviours with two speakers.
PairSizes == {19200, 960000}

\* A packet shorter than one stereo frame, and 5 s of audio.
OddSizes == {3, 960000}

\* Sizes, in bytes, of the stereo packets handed to DiscordAudioSink.write,
\* which buffers a quarter of the bytes: 0.1 s and 5 s of buffered audio.
DiscordSizes == {38400, 1920000}

\* Sizes, in bytes, of the chunks handed to add_audio_chunk directly: an odd
\* chunk, and 0.3 s of mono audio.
ChunkSizes == {3, 28800}

\* Sizes, in bytes, of the stereo packets handed to write:
\* 0.1 s, 3 s and 5 s of 48 kHz 16-bit stereo audio.
PacketSizes == {19200, 576000, 960000}

\* What the transcription gateway can answer: a text, a text of white space,
\* a result without text, an exception.
GatewayResults == {"text", "blank", "none", "fail"}

\* result.get("text") for each answer; a text is a sequence of characters
GatewayText(r) ==
    CASE r = "text" -> <<" ", "h", "i", " ">>
      [] r = "blank" -> <<" ", " ">>
      [] OTHER -> <<>>

(***************************************************************************)
(* Configuration (StreamingAudioSink.__init__).                            *)
(***************************************************************************)
sample_rate == 48000
buffer_duration == 5
force_process_threshold == 8
segment_timeout == 2
\* min_speech_duration is 0.3 s; kept in tenths of a second
min_speech_duration_tenths == 3

(***************************************************************************)
(* Python dictionaries.                                                    *)
(***************************************************************************)
EmptyMap == [x \in {} |-> 0]
Put(m, k, v) == [x \in (DOMAIN m) \cup {k} |-> IF x = k THEN v ELSE m[x]]
Del(m, k) == [x \in (DOMAIN m) \ {k} |-> m[x]]
Get(m, k, d) == IF k \in DOMAIN m THEN m[k] ELSE d

RECURSIVE SumLen(_)
SumLen(s) == IF s = <<>> THEN 0 ELSE Head(s).len + SumLen(Tail(s))

Ids(s) == {s[i].id : i \in 1..Len(s)}

(***************************************************************************)
(* AudioProcessor, on byte counts.                                         *)
(***************************************************************************)
stereo_to_mono(n) == IF n < 4 THEN n ELSE 2 * (n \div 4)

format_audio(n) == stereo_to_mono(n)

\* pcm_to_wav reads the segment with np.frombuffer(pcm_data, dtype=np.int16)
\* (line 73), which raises ValueError for a byte string of odd length.
pcm_to_wav_raises(n) == n % 2 = 1

(***************************************************************************)
(* BufferManager.                                                          *)
(***************************************************************************)
\* The duration is total_samples / sample_rate; it is kept as the number of
\* samples, and compared with thresholds multiplied by sample_rate.
get_buffer_duration(u) ==
    IF u \notin DOMAIN user_buffers THEN 0 ELSE SumLen(user_buffers[u]) \div 2

is_processing_locked(u) == Get(processing_locks, u, FALSE)

set_processing_lock(u, locked) == Put(processing_locks, u, locked)

\* should_force_process without its test of the lock (lines 169-170)
should_force_process_unlocked(u) ==
    get_buffer_duration(u) >= force_process_threshold * sample_rate

should_force_process(u) ==
    IF Get(processing_locks, u, FALSE)
    THEN FALSE
    ELSE get_buffer_duration(u) >= force_process_threshold * sample_rate

\* write without the branch of the normal threshold (lines 416-423)
should_process_buffer_never(u) == FALSE

\* should_process_buffer with > in the place of >= (line 182)
should_process_buffer_above(u) ==
    IF Get(processing_locks, u, FALSE)
    THEN FALSE
    ELSE get_buffer_duration(u) > buffer_duration * sample_rate

should_process_buffer(u) ==
    IF Get(processing_locks, u, FALSE)
    THEN FALSE
    ELSE get_buffer_duration(u) >= buffer_duration * sample_rate

\* the duration test with > in the place of >=
LongerThanMin(seg) == SumLen(seg) * 10 > min_speech_duration_tenths * sample_rate * 2

\* duration = len(audio_segment) / (sample_rate * 2) >= min_speech_duration
LongEnough(seg) == SumLen(seg) * 10 >= min_speech_duration_tenths * sample_rate * 2

(***************************************************************************)
(* Tasks.                                                                  *)
(***************************************************************************)
\* A timer is a timeout_handler: it runs to its asyncio.sleep when it starts
\* (line 466-467).  A flush is a process_user_buffer submitted on its own.
NewTask(kind, u, trigger, expect) ==
    [kind |-> kind, user |-> u, pc |-> IF kind = "timer" THEN "sleep" ELSE "queued",
     trigger |-> trigger, cancelReq |-> FALSE,
     start_time |-> Get(user_last_packet_time, u, 0),
     wake_at |-> now + segment_timeout,
     seg |-> <<>>,
     \* history fields: the number of cleanup calls made before the task was
     \* submitted; for a flush cleanup submitted, the chunks that were buffered
     \* when cleanup was called
     cleanups |-> c.calls, expect |-> expect]

TaskIds == 1..Len(tasks)

NoEvent == [op |-> "none"]

\* The state after StreamingAudioSink.__init__, for the speakers sp and the
\* bounds lim: at most lim.writes packets of the sizes lim.sizes, lim.cleanups
\* cleanup calls, lim.time seconds.
Start(sp, lim) ==
    /\ user_buffers = EmptyMap
    /\ user_last_activity = EmptyMap
    /\ user_speech_start = EmptyMap
    /\ user_last_packet_time = EmptyMap
    /\ processing_locks = EmptyMap
    /\ user_timeout_tasks = EmptyMap
    /\ tasks = <<>>
    /\ running = 0
    /\ w = [pc |-> "idle"]
    /\ c = [pc |-> "idle", calls |-> 0, returned_at |-> 0, nwrites |-> 0, quiet |-> TRUE]
    /\ now = 0
    /\ nwrites = 0
    /\ speakers = sp
    /\ limits = lim
    /\ last = NoEvent
    /\ last_accept = EmptyMap

Init ==
    Start({"A"}, [writes |-> MaxWrites, time |-> MaxTime, cleanups |-> MaxCleanups,
                  sizes |-> PacketSizes])

\* The clock is read only by timeout_handler (the sleep and line 468) and
\* stored by write: time that passes while no sleep is waiting for it is not
\* observable, and is left out.
TimerWaits(t) == tasks[t].pc = "sleep" /\ now < tasks[t].wake_at

\* Work the event loop can do at once: a submitted coroutine to start, a
\* coroutine between two awaits, a sleep that has elapsed, a cancellation to
\* deliver.  The loop does it in far less than one unit of the clock.
LoopReady(t) ==
    \/ tasks[t].pc \in {"queued", "join", "clear"}
    \/ tasks[t].pc = "sleep" /\ now >= tasks[t].wake_at
    \/ tasks[t].cancelReq /\ tasks[t].pc \in {"sleep", "transcribing"}

\* One second passes.  write and cleanup do not block and the loop is never
\* busy for long: the clock does not move while one of them has a step to take.
Tick ==
    /\ now < limits.time
    /\ w.pc = "idle"
    /\ c.pc # "timers"
    /\ \A t \in TaskIds : ~LoopReady(t)
    /\ \E t \in TaskIds : TimerWaits(t)
    /\ now' = now + 1
    /\ last' = NoEvent
    /\ UNCHANGED <<bufVars, processing_locks, user_timeout_tasks, tasks, running, w, c,
                   nwrites, speakers, limits, last_accept>>

(***************************************************************************)
(* StreamingAudioSink.write, on the ingestion thread.                      *)
(***************************************************************************)
initialize_user(u, t) ==
    IF u \notin DOMAIN user_buffers
    THEN /\ user_buffers' = Put(user_buffers, u, <<>>)
         /\ user_last_activity' = Put(user_last_activity, u, t)
         /\ user_last_packet_time' = Put(user_last_packet_time, u, t)
         /\ processing_locks' = Put(processing_locks, u, FALSE)
    ELSE UNCHANGED <<user_buffers, user_last_activity, user_last_packet_time,
                     processing_locks>>

\* user_id, current_time, initialize_user, format_audio (lines 394-398)
WriteStart(u, n) ==
    /\ w.pc = "idle"
    /\ nwrites < limits.writes
    /\ nwrites' = nwrites + 1
    /\ initialize_user(u, now)
    /\ w' = [pc |-> "add", user |-> u, time |-> now,
             chunk |-> [id |-> nwrites + 1, len |-> format_audio(n), locked |-> FALSE],
             \* history: what the threshold checks saw, and what write submitted
             reached |-> FALSE, full |-> FALSE, locked |-> FALSE, submitted |-> "none"]
    /\ last' = NoEvent
    /\ UNCHANGED <<user_speech_start, user_timeout_tasks, tasks, running, c, now,
                   speakers, limits, last_accept>>

\* add_audio_chunk that replaces the buffered chunks by the new chunk
add_audio_chunk_replace(u, chunk, t) ==
    /\ user_speech_start' =
          IF u \notin DOMAIN user_speech_start
          THEN Put(user_speech_start, u, t) ELSE user_speech_start
    /\ IF u \in DOMAIN user_buffers
       THEN /\ user_buffers' = [user_buffers EXCEPT ![u] = <<chunk>>]
            /\ user_last_activity' = Put(user_last_activity, u, t)
            /\ user_last_packet_time' = Put(user_last_packet_time, u, t)
       ELSE UNCHANGED <<user_buffers, user_last_activity, user_last_packet_time>>

\* self.user_buffers[user_id] raises KeyError when the user has no buffer:
\* the speech start is already recorded by then, the rest is not executed.
add_audio_chunk(u, chunk, t) ==
    /\ user_speech_start' =
          IF u \notin DOMAIN user_speech_start
          THEN Put(user_speech_start, u, t) ELSE user_speech_start
    /\ IF u \in DOMAIN user_buffers
       THEN /\ user_buffers' = [user_buffers EXCEPT ![u] = Append(@, chunk)]
            /\ user_last_activity' = Put(user_last_activity, u, t)
            /\ user_last_packet_time' = Put(user_last_packet_time, u, t)
       ELSE UNCHANGED <<user_buffers, user_last_activity, user_last_packet_time>>

\* line 406; write has no try block, so the KeyError leaves write.
\* The chunk remembers whether the lock was held when it was appended.
WriteAdd ==
    /\ w.pc = "add"
    /\ add_audio_chunk(w.user, [w.chunk EXCEPT !.locked = is_processing_locked(w.user)],
                       w.time)
    /\ IF w.user \in DOMAIN user_buffers
       THEN /\ w' = [w EXCEPT !.pc = "check"]
            /\ last_accept' = Put(last_accept, w.user, w.time)
            /\ last' = NoEvent
       ELSE /\ w' = [pc |-> "idle"]
            /\ last_accept' = last_accept
            /\ last' = [op |-> "raise", user |-> w.user,
                        locked |-> is_processing_locked(w.user)]
    /\ UNCHANGED <<processing_locks, user_timeout_tasks, tasks, running, c, now, nwrites, speakers, limits>>

ReachedBuffer(u) == get_buffer_duration(u) >= buffer_duration * sample_rate

ReachedForce(u) == get_buffer_duration(u) >= force_process_threshold * sample_rate

\* lines 408-423: the force threshold, else the buffer threshold
ThresholdFlush(u) ==
    IF should_force_process(u) THEN "force"
    ELSE IF should_process_buffer(u) THEN "threshold"
    ELSE "none"

WriteCheck ==
    /\ w.pc = "check"
    /\ tasks' = IF ThresholdFlush(w.user) = "none" THEN tasks
                ELSE Append(tasks, NewTask("flush", w.user, ThresholdFlush(w.user), {}))
    /\ w' = [w EXCEPT !.pc = "sched",
                      !.submitted = ThresholdFlush(w.user),
                      !.reached = ReachedForce(w.user),
                      !.full = ReachedBuffer(w.user),
                      !.locked = is_processing_locked(w.user)]
    /\ last' = NoEvent
    /\ UNCHANGED <<bufVars, processing_locks, user_timeout_tasks, running, c, now, nwrites,
                   speakers, limits, last_accept>>

\* Future.cancel() of the future run_coroutine_threadsafe returned: it asks the
\* loop to cancel the task (call_soon_threadsafe(task.cancel)).
RequestCancel(ts, t) == [ts EXCEPT ![t].cancelReq = TRUE]

\* TimeoutManager.schedule_timeout: the tasks and the task map after it
schedule_timeout(u) ==
    LET ts == IF u \in DOMAIN user_timeout_tasks
              THEN RequestCancel(tasks, user_timeout_tasks[u]) ELSE tasks
    IN  [tasks |-> Append(ts, NewTask("timer", u, "timer", {})),
         map |-> Put(user_timeout_tasks, u, Len(tasks) + 1)]

\* lines 425-428
WriteSched ==
    /\ w.pc = "sched"
    /\ tasks' = schedule_timeout(w.user).tasks
    /\ user_timeout_tasks' = schedule_timeout(w.user).map
    /\ w' = [pc |-> "idle"]
    /\ last' = NoEvent
    /\ UNCHANGED <<bufVars, processing_locks, running, c, now, nwrites, speakers, limits, last_accept>>

(***************************************************************************)
(* StreamingAudioSink.cleanup.                                             *)
(***************************************************************************)
\* the users cleanup_all_buffers returns
remaining_users == {u \in DOMAIN user_buffers : Len(user_buffers[u]) > 0}

RECURSIVE Submit(_, _, _)
Submit(ts, us, i) ==
    IF i > Len(UserOrder) THEN ts
    ELSE IF UserOrder[i] \in us
         THEN Submit(Append(ts, NewTask("flush", UserOrder[i], "cleanup",
                                        Ids(user_buffers[UserOrder[i]]))), us, i + 1)
         ELSE Submit(ts, us, i + 1)

\* BufferManager.cleanup_all_buffers
cleanup_all_buffers ==
    /\ user_buffers' = EmptyMap
    /\ user_last_activity' = EmptyMap
    /\ user_speech_start' = EmptyMap
    /\ processing_locks' = EmptyMap
    /\ UNCHANGED user_last_packet_time

\* lines 434-439
CleanupBuffers ==
    /\ c.pc = "idle"
    /\ c.calls < limits.cleanups
    /\ cleanup_all_buffers
    /\ tasks' = Submit(tasks, remaining_users, 1)
    \* history: the writes started so far, and whether one is in progress
    /\ c' = [c EXCEPT !.pc = "timers", !.calls = c.calls + 1,
                      !.nwrites = nwrites, !.quiet = (w.pc = "idle")]
    /\ last' = NoEvent
    /\ UNCHANGED <<user_timeout_tasks, running, w, now, nwrites, speakers, limits, last_accept>>

\* the number of cleanup calls that have returned
CleanupsReturned == IF c.pc = "timers" THEN c.calls - 1 ELSE c.calls

RECURSIVE CancelAll(_, _)
CancelAll(ts, S) ==
    IF S = {} THEN ts
    ELSE LET t == CHOOSE x \in S : TRUE IN CancelAll(RequestCancel(ts, t), S \ {t})

\* TimeoutManager.cleanup_all_timeouts: cancel_timeout for every entry
cleanup_all_timeouts ==
    [tasks |-> CancelAll(tasks, {user_timeout_tasks[u] : u \in DOMAIN user_timeout_tasks}),
     map |-> EmptyMap]

\* lines 441-442
CleanupTimeouts ==
    /\ c.pc = "timers"
    /\ tasks' = cleanup_all_timeouts.tasks
    /\ user_timeout_tasks' = cleanup_all_timeouts.map
    /\ c' = [c EXCEPT !.pc = "idle", !.returned_at = now]
    /\ last' = NoEvent
    /\ UNCHANGED <<bufVars, processing_locks, running, w, now, nwrites, speakers, limits, last_accept>>

(***************************************************************************)
(* Coroutines on the event loop.  A coroutine runs from one await to the   *)
(* next without any other coroutine running in between (running), but the  *)
(* ingestion thread and cleanup may run between any two of its steps.      *)
(***************************************************************************)
\* cleanup_timeout dropping every entry
cleanup_timeout_all(u) == EmptyMap

\* TimeoutManager.cleanup_timeout
cleanup_timeout(u) == Del(user_timeout_tasks, u)

\* process_user_buffer without its finally block
PubNoFinally(u) == processing_locks

\* the finally block of process_user_buffer (lines 384-385)
PubFinally(u) == set_processing_lock(u, FALSE)

Remove(ts, t) == SubSeq(ts, 1, t - 1) \o SubSeq(ts, t + 1, Len(ts))
Renumber(m, t) == [u \in DOMAIN m |-> IF m[u] > t THEN m[u] - 1 ELSE m[u]]

\* The coroutine of task t ends: process_user_buffer's finally block when it
\* had taken the lock (release), and timeout_handler's finally block
\* (lines 484-485) when the task is a timer.
Exit(t, release) ==
    /\ tasks' = Remove(tasks, t)
    /\ processing_locks' = IF release THEN PubFinally(tasks[t].user) ELSE processing_locks
    /\ user_timeout_tasks' =
          Renumber(IF tasks[t].kind = "timer"
                   THEN cleanup_timeout(tasks[t].user) ELSE user_timeout_tasks, t)
    /\ running' = 0

\* history: what a flush submitted by cleanup got of the audio that was
\* buffered when cleanup was called
FinalFlush(t, got) ==
    IF tasks[t].trigger # "cleanup" THEN "none"
    ELSE IF tasks[t].expect \subseteq got THEN "ok" ELSE "lost"

\* process_user_buffer that stays submitted when it finds the lock held
PubEnterQueued(t) ==
    IF is_processing_locked(tasks[t].user)
    THEN UNCHANGED <<processing_locks, tasks, running, user_timeout_tasks>>
    ELSE /\ processing_locks' = set_processing_lock(tasks[t].user, TRUE)
         /\ tasks' = [tasks EXCEPT ![t].pc = "join"]
         /\ running' = t
         /\ UNCHANGED user_timeout_tasks

\* process_user_buffer, lines 361-364
PubEnter(t) ==
    IF is_processing_locked(tasks[t].user)
    THEN Exit(t, FALSE)
    ELSE /\ processing_locks' = set_processing_lock(tasks[t].user, TRUE)
         /\ tasks' = [tasks EXCEPT ![t].pc = "join"]
         /\ running' = t
         /\ UNCHANGED user_timeout_tasks

\* the test of line 472 on the packet time read before the sleep (line 466)
RevalidateStart(t) == now - tasks[t].start_time >= segment_timeout

\* timeout_handler, line 472: time_since_last_packet >= timeout_duration
Revalidate(t) ==
    now - Get(user_last_packet_time, tasks[t].user, 0) >= segment_timeout

\* timeout_handler resumes after asyncio.sleep (lines 468-477)
TimerWake(t) ==
    LET u == tasks[t].user
        fires == Revalidate(t) /\ get_buffer_duration(u) > 0
    IN  /\ tasks[t].kind = "timer"
        /\ tasks[t].pc = "sleep"
        /\ running = 0
        /\ now >= tasks[t].wake_at
        /\ IF fires THEN PubEnter(t) ELSE Exit(t, FALSE)
        /\ last' = [op |-> "wake", user |-> u, fires |-> fires,
                    entered |-> fires /\ ~is_processing_locked(u),
                    recent |-> now - Get(last_accept, u, 0) < segment_timeout,
                    \* armed before a cleanup call that returned while the
                    \* handler was still in its sleep
                    straggler |-> /\ tasks[t].cleanups < CleanupsReturned
                                  /\ c.returned_at < tasks[t].wake_at]
        /\ UNCHANGED <<bufVars, w, c, now, nwrites, speakers, limits, last_accept>>

\* A process_user_buffer submitted with run_coroutine_threadsafe starts; the
\* loop starts the submitted coroutines in the order of their submission.
FlushStart(t) ==
    /\ tasks[t].kind = "flush"
    /\ tasks[t].pc = "queued"
    /\ \A t2 \in 1..(t - 1) : tasks[t2].pc # "queued"
    /\ running = 0
    /\ PubEnter(t)
    /\ last' = [op |-> "start", user |-> tasks[t].user, trigger |-> tasks[t].trigger,
                entered |-> ~is_processing_locked(tasks[t].user),
                final |-> IF is_processing_locked(tasks[t].user)
                          THEN FinalFlush(t, {}) ELSE "none"]
    /\ UNCHANGED <<bufVars, w, c, now, nwrites, speakers, limits, last_accept>>

\* clear_user_buffer, lines 156-159: the emptiness test and b"".join
Join(t) ==
    LET u == tasks[t].user IN
    /\ tasks[t].pc = "join"
    /\ running = t
    /\ IF u \notin DOMAIN user_buffers \/ Len(user_buffers[u]) = 0
       THEN /\ Exit(t, TRUE)
            /\ last' = [op |-> "empty", user |-> u, kind |-> tasks[t].kind,
                        final |-> FinalFlush(t, {})]
       ELSE /\ tasks' = [tasks EXCEPT ![t].pc = "clear", ![t].seg = user_buffers[u]]
            /\ last' = [op |-> "join", user |-> u]
            /\ UNCHANGED <<processing_locks, user_timeout_tasks, running>>
    /\ UNCHANGED <<bufVars, w, c, now, nwrites, speakers, limits, last_accept>>

\* the chunks of buffer buf that are not in the segment seg
NotIn(buf, seg) == {i \in 1..Len(buf) : buf[i].id \notin Ids(seg)}

\* clear_user_buffer, lines 160-165, then process_user_buffer lines 367-375 and
\* process_audio_segment up to the await of transcribe_bytes (lines 313-332).
\* self.user_buffers[user_id] raises KeyError when cleanup emptied the map:
\* process_user_buffer catches it (line 380) and no segment is returned.
\* An exception of pcm_to_wav is caught by process_audio_segment (line 346):
\* the segment is lost and transcribe_bytes is not called.
Clear(t) ==
    LET u == tasks[t].user
        seg == tasks[t].seg
    IN
    /\ tasks[t].pc = "clear"
    /\ running = t
    /\ IF u \notin DOMAIN user_buffers
       THEN /\ Exit(t, TRUE)
            /\ last' = [op |-> "error", user |-> u, kind |-> tasks[t].kind,
                        final |-> FinalFlush(t, {})]
            /\ UNCHANGED bufVars
       ELSE /\ user_buffers' = [user_buffers EXCEPT ![u] = <<>>]
            /\ user_speech_start' = Del(user_speech_start, u)
            /\ UNCHANGED <<user_last_activity, user_last_packet_time>>
            /\ last' = [op |-> "extract", user |-> u, kind |-> tasks[t].kind,
                        bytes |-> SumLen(seg),
                        called |-> LongEnough(seg) /\ ~pcm_to_wav_raises(SumLen(seg)),
                        lost |-> NotIn(user_buffers[u], seg) # {},
                        lostLocked |-> \E i \in NotIn(user_buffers[u], seg) :
                                          user_buffers[u][i].locked,
                        backlog |-> \E i \in 1..Len(seg) : seg[i].locked,
                        final |-> FinalFlush(t, Ids(seg))]
            /\ IF LongEnough(seg) /\ ~pcm_to_wav_raises(SumLen(seg))
               THEN /\ tasks' = [tasks EXCEPT ![t].pc = "transcribing"]
                    /\ running' = 0
                    /\ UNCHANGED <<processing_locks, user_timeout_tasks>>
               ELSE Exit(t, TRUE)
    /\ UNCHANGED <<w, c, now, nwrites, speakers, limits, last_accept>>

\* a text as it is, not stripped
unstripped(s) == s

\* str.strip (line 336)
RECURSIVE strip(_)
strip(s) ==
    IF s = <<>> THEN s
    ELSE IF Head(s) = " " THEN strip(Tail(s))
    ELSE IF s[Len(s)] = " " THEN strip(SubSeq(s, 1, Len(s) - 1))
    ELSE s

\* lines 335-338: the text handed to send_transcription, <<>> when it is not
\* called (no result, no text, or a text that is empty once stripped)
transcribed_text(r) ==
    IF r = "fail" \/ GatewayText(r) = <<>> THEN <<>> ELSE strip(GatewayText(r))

\* process_audio_segment calling transcribe_bytes again after a failure
GatewayRetry(t, r) ==
    /\ tasks[t].pc = "transcribing"
    /\ running = 0
    /\ IF r = "fail"
       THEN UNCHANGED <<tasks, processing_locks, user_timeout_tasks, running>>
       ELSE Exit(t, TRUE)
    /\ last' = [op |-> "return", user |-> tasks[t].user, kind |-> tasks[t].kind,
                result |-> r, sent |-> (transcribed_text(r) # <<>>),
                text |-> transcribed_text(r), duration |-> SumLen(tasks[t].seg)]
    /\ UNCHANGED <<bufVars, w, c, now, nwrites, speakers, limits, last_accept>>

\* transcribe_bytes returns or raises; lines 333-347 (send_transcription is
\* called for a text that is not empty once stripped), then the finally blocks
GatewayReturn(t, r) ==
    /\ tasks[t].pc = "transcribing"
    /\ running = 0
    /\ Exit(t, TRUE)
    /\ last' = [op |-> "return", user |-> tasks[t].user, kind |-> tasks[t].kind,
                result |-> r, sent |-> (transcribed_text(r) # <<>>),
                \* the arguments of send_transcription: the text, and the
                \* duration (line 314) as a number of bytes of the segment
                text |-> transcribed_text(r), duration |-> SumLen(tasks[t].seg)]
    /\ UNCHANGED <<bufVars, w, c, now, nwrites, speakers, limits, last_accept>>

\* The loop runs task.cancel() for a timer whose future was cancelled: the
\* CancelledError is raised at the await the task is suspended in (the sleep,
\* or transcribe_bytes below process_user_buffer); it is a BaseException, so
\* only the finally blocks run.  The cancellations of one user's timers are
\* delivered in the order they were requested, which is the order the timers
\* were armed in.
DeliverCancel(t) ==
    /\ tasks[t].kind = "timer"
    /\ tasks[t].cancelReq
    /\ tasks[t].pc \in {"sleep", "transcribing"}
    /\ \A t2 \in 1..(t - 1) : ~(tasks[t2].cancelReq /\ tasks[t2].user = tasks[t].user)
    /\ running = 0
    /\ Exit(t, tasks[t].pc = "transcribing")
    /\ last' = [op |-> IF tasks[t].pc = "transcribing" THEN "abort" ELSE "cancel",
                user |-> tasks[t].user]
    /\ UNCHANGED <<bufVars, w, c, now, nwrites, speakers, limits, last_accept>>

Next ==
    \/ Tick
    \/ \E u \in speakers, n \in limits.sizes : WriteStart(u, n)
    \/ WriteAdd
    \/ WriteCheck
    \/ WriteSched
    \/ CleanupBuffers
    \/ CleanupTimeouts
    \/ \E t \in TaskIds : TimerWake(t)
    \/ \E t \in TaskIds : FlushStart(t)
    \/ \E t \in TaskIds : Join(t)
    \/ \E t \in TaskIds : Clear(t)
    \/ \E t \in TaskIds, r \in GatewayResults : GatewayReturn(t, r)
    \/ \E t \in TaskIds : DeliverCancel(t)

Spec == Init /\ [][Next]_vars

\* One speaker whose packets include one that is shorter than a stereo frame.
InitOdd ==
    Start({"A"}, [writes |-> FewWrites, time |-> MaxTime, cleanups |-> MaxCleanups,
                  sizes |-> OddSizes])

SpecOdd == InitOdd /\ [][Next]_vars

\* Two speakers, with no cleanup call.
InitPair ==
    Start({"A", "B"}, [writes |-> MaxWrites, time |-> segment_timeout, cleanups |-> 0,
                       sizes |-> PairSizes])

NextPair ==
    \/ Tick
    \/ \E u \in speakers, n \in limits.sizes : WriteStart(u, n)
    \/ WriteAdd
    \/ WriteCheck
    \/ WriteSched
    \/ \E t \in TaskIds : TimerWake(t)
    \/ \E t \in TaskIds : FlushStart(t)
    \/ \E t \in TaskIds : Join(t)
    \/ \E t \in TaskIds : Clear(t)
    \/ \E t \in TaskIds, r \in GatewayResults : GatewayReturn(t, r)
    \/ \E t \in TaskIds : DeliverCancel(t)

SpecPair == InitPair /\ [][NextPair]_vars

(***************************************************************************)
(* One speaker who sends continuous audio for 12 s and stops: a packet of  *)
(* one second every second, the first at time 0; no cleanup.               *)
(***************************************************************************)
InitStream ==
    Start({"A"}, [writes |-> 12, time |-> 14, cleanups |-> 0, sizes |-> StreamSizes])

\* the next packet arrives one second after the previous one
StreamWrite ==
    /\ now = nwrites
    /\ \E u \in speakers, n \in limits.sizes : WriteStart(u, n)

\* a second passes once the packet of the current second was written
StreamTick ==
    /\ nwrites > now \/ nwrites = limits.writes
    /\ Tick

NextStream ==
    \/ StreamTick
    \/ StreamWrite
    \/ WriteAdd
    \/ WriteCheck
    \/ WriteSched
    \/ \E t \in TaskIds : TimerWake(t)
    \/ \E t \in TaskIds : FlushStart(t)
    \/ \E t \in TaskIds : Join(t)
    \/ \E t \in TaskIds : Clear(t)
    \/ \E t \in TaskIds, r \in GatewayResults : GatewayReturn(t, r)
    \/ \E t \in TaskIds : DeliverCancel(t)

SpecStream == InitStream /\ [][NextStream]_vars

(***************************************************************************)
(* One speaker who sends a few packets and stops, with no cleanup call,    *)
(* under the scheduling the program runs with: a write that has started    *)
(* runs to its end, the event loop runs the coroutines that are ready,     *)
(* sleeps elapse, and every call of the gateway returns or fails.          *)
(***************************************************************************)
InitLive ==
    Start({"A"}, [writes |-> FewWrites, time |-> 2 * segment_timeout, cleanups |-> 0,
                  sizes |-> PairSizes])

\* the packets arrive early enough for the timers they arm to elapse within
\* the time of the behaviour
LiveWrite ==
    /\ now + segment_timeout <= limits.time
    /\ \E u \in speakers, n \in limits.sizes : WriteStart(u, n)

WriteStep == WriteAdd \/ WriteCheck \/ WriteSched

LoopStep ==
    \/ \E t \in TaskIds : TimerWake(t)
    \/ \E t \in TaskIds : FlushStart(t)
    \/ \E t \in TaskIds : Join(t)
    \/ \E t \in TaskIds : Clear(t)
    \/ \E t \in TaskIds : DeliverCancel(t)

GatewayStep == \E t \in TaskIds, r \in GatewayResults : GatewayReturn(t, r)

NextLive ==
    \/ Tick
    \/ LiveWrite
    \/ WriteStep
    \/ LoopStep
    \/ GatewayStep

SpecLive ==
    /\ InitLive /\ [][NextLive]_vars
    /\ WF_vars(Tick) /\ WF_vars(WriteStep) /\ WF_vars(LoopStep) /\ WF_vars(GatewayStep)

(***************************************************************************)
(* DiscordAudioSink (src/src/audio/discord_interface.py) with the          *)
(* BufferManager and the TimeoutManager of src/src/audio/streaming_sink.py. *)
(* BufferManager is the one of bot/audio_processing.py with the prompt maps *)
(* added, which the sink does not use; schedule_timeout arms a timer only   *)
(* when the speaker has none.  The sink takes no processing lock and its    *)
(* write checks no threshold.  cleanup is not part of these behaviours.     *)
(***************************************************************************)
\* schedule_timeout arming a timer whether or not the speaker has one
schedule_timeout_again(u) ==
    [tasks |-> Append(tasks, NewTask("timer", u, "timer", {})),
     map |-> Put(user_timeout_tasks, u, Len(tasks) + 1)]

\* TimeoutManager.schedule_timeout of streaming_sink.py: the tasks and the
\* task map after it
schedule_timeout_if_none(u) ==
    IF u \in DOMAIN user_timeout_tasks
    THEN [tasks |-> tasks, map |-> user_timeout_tasks]
    ELSE [tasks |-> Append(tasks, NewTask("timer", u, "timer", {})),
          map |-> Put(user_timeout_tasks, u, Len(tasks) + 1)]

\* write, lines 109-114
DiscordWriteStart(u, n) ==
    /\ w.pc = "idle"
    /\ nwrites < limits.writes
    /\ nwrites' = nwrites + 1
    /\ initialize_user(u, now)
    \* lines 129-130: format_audio, which converts to mono, then stereo_to_mono
    /\ w' = [pc |-> "audio", user |-> u, time |-> now,
             chunk |-> [id |-> nwrites + 1, len |-> stereo_to_mono(format_audio(n)),
                        locked |-> FALSE],
             \* history: the size of the packet
             size |-> n]
    /\ last' = NoEvent
    /\ UNCHANGED <<user_speech_start, user_timeout_tasks, tasks, running, c, now,
                   speakers, limits, last_accept>>

\* _process_discord_audio, line 134; an exception is caught at line 141
process_discord_audio ==
    /\ w.pc = "audio"
    /\ add_audio_chunk(w.user, w.chunk, w.time)
    /\ w' = IF w.user \in DOMAIN user_buffers THEN [w EXCEPT !.pc = "timeout"]
            ELSE [pc |-> "idle"]
    /\ last_accept' = IF w.user \in DOMAIN user_buffers
                      THEN Put(last_accept, w.user, w.time) ELSE last_accept
    /\ last' = NoEvent
    /\ UNCHANGED <<processing_locks, user_timeout_tasks, tasks, running, c, now, nwrites,
                   speakers, limits>>

\* _handle_discord_vad_timeout, lines 147-154
handle_discord_vad_timeout ==
    /\ w.pc = "timeout"
    /\ tasks' = schedule_timeout_if_none(w.user).tasks
    /\ user_timeout_tasks' = schedule_timeout_if_none(w.user).map
    /\ w' = [pc |-> "idle"]
    /\ last' = NoEvent
    /\ UNCHANGED <<bufVars, processing_locks, running, c, now, nwrites, speakers, limits,
                   last_accept>>

\* _process_user_timeout, line 163: buffer_duration < min_speech_duration
BufferTooShort(u) ==
    get_buffer_duration(u) * 10 < min_speech_duration_tenths * sample_rate

\* _timeout_handler resumes after asyncio.sleep (lines 214-226), and
\* _process_user_timeout reads the duration of the buffer (lines 160-163)
DiscordTimerWake(t) ==
    LET u == tasks[t].user
        fires == Revalidate(t) /\ get_buffer_duration(u) > 0
    IN  /\ tasks[t].kind = "timer"
        /\ tasks[t].pc = "sleep"
        /\ running = 0
        /\ now >= tasks[t].wake_at
        /\ IF fires
           THEN /\ tasks' = [tasks EXCEPT ![t].pc = "join",
                                          ![t].trigger = IF BufferTooShort(u)
                                                         THEN "short" ELSE "timer"]
                /\ running' = t
                /\ UNCHANGED <<processing_locks, user_timeout_tasks>>
           ELSE Exit(t, FALSE)
        /\ last' = [op |-> "wake", user |-> u, fires |-> fires,
                    recent |-> now - Get(last_accept, u, 0) < segment_timeout]
        /\ UNCHANGED <<bufVars, w, c, now, nwrites, speakers, limits, last_accept>>

\* clear_user_buffer, the emptiness test and b"".join
DiscordJoin(t) ==
    LET u == tasks[t].user IN
    /\ tasks[t].pc = "join"
    /\ running = t
    /\ IF u \notin DOMAIN user_buffers \/ Len(user_buffers[u]) = 0
       THEN /\ Exit(t, FALSE)
            /\ last' = [op |-> "empty", user |-> u]
       ELSE /\ tasks' = [tasks EXCEPT ![t].pc = "clear", ![t].seg = user_buffers[u]]
            /\ last' = [op |-> "join", user |-> u]
            /\ UNCHANGED <<processing_locks, user_timeout_tasks, running>>
    /\ UNCHANGED <<bufVars, w, c, now, nwrites, speakers, limits, last_accept>>

\* clear_user_buffer, the clear, then _process_user_timeout lines 166-174 and
\* process_audio_segment up to the await of transcribe_bytes (lines 72-81);
\* an exception of pcm_to_wav is caught at line 97
DiscordClear(t) ==
    LET u == tasks[t].user
        seg == tasks[t].seg
        called == tasks[t].trigger # "short" /\ ~pcm_to_wav_raises(SumLen(seg))
    IN
    /\ tasks[t].pc = "clear"
    /\ running = t
    /\ user_buffers' = [user_buffers EXCEPT ![u] = <<>>]
    /\ user_speech_start' = Del(user_speech_start, u)
    /\ UNCHANGED <<user_last_activity, user_last_packet_time>>
    /\ last' = [op |-> "extract", user |-> u, bytes |-> SumLen(seg), called |-> called]
    /\ IF called
       THEN /\ tasks' = [tasks EXCEPT ![t].pc = "transcribing"]
            /\ running' = 0
            /\ UNCHANGED <<processing_locks, user_timeout_tasks>>
       ELSE Exit(t, FALSE)
    /\ UNCHANGED <<w, c, now, nwrites, speakers, limits, last_accept>>

\* transcribe_bytes returns or raises (lines 83-98), then the finally block
\* of _timeout_handler (line 236)
DiscordGatewayReturn(t, r) ==
    /\ tasks[t].pc = "transcribing"
    /\ running = 0
    /\ Exit(t, FALSE)
    /\ last' = [op |-> "return", user |-> tasks[t].user, result |-> r,
                sent |-> (transcribed_text(r) # <<>>)]
    /\ UNCHANGED <<bufVars, w, c, now, nwrites, speakers, limits, last_accept>>

InitDiscord ==
    Start({"A"}, [writes |-> MaxWrites, time |-> 2 * segment_timeout, cleanups |-> 0,
                  sizes |-> DiscordSizes])

\* the packets arrive early enough for the timers they arm to elapse within
\* the time of the behaviour
DiscordWrite ==
    /\ now + segment_timeout <= limits.time
    /\ \E u \in speakers, n \in limits.sizes : DiscordWriteStart(u, n)

DiscordWriteStep == process_discord_audio \/ handle_discord_vad_timeout

DiscordLoopStep ==
    \/ \E t \in TaskIds : DiscordTimerWake(t)
    \/ \E t \in TaskIds : DiscordJoin(t)
    \/ \E t \in TaskIds : DiscordClear(t)

DiscordGatewayStep == \E t \in TaskIds, r \in GatewayResults : DiscordGatewayReturn(t, r)

NextDiscord ==
    \/ Tick
    \/ DiscordWrite
    \/ DiscordWriteStep
    \/ DiscordLoopStep
    \/ DiscordGatewayStep

SpecDiscord == InitDiscord /\ [][NextDiscord]_vars

\* the scheduling the program runs with: a write that has started runs to
\* its end, the event loop runs the coroutines that are ready, sleeps elapse,
\* and every call of the gateway returns or fails
SpecDiscordLive ==
    /\ SpecDiscord
    /\ WF_vars(Tick) /\ WF_vars(DiscordWriteStep) /\ WF_vars(DiscordLoopStep)
    /\ WF_vars(DiscordGatewayStep)

(***************************************************************************)
(* DiscordAudioSink with cleanup.                                          *)
(***************************************************************************)
\* BufferManager has no method clear_all_buffers: line 183 raises
\* AttributeError, which the except clause of cleanup catches (line 185)
clear_all_buffers == UNCHANGED bufVars

\* cleanup, lines 179-186: cleanup_all_timeouts, then clear_all_buffers
DiscordCleanup ==
    /\ c.pc = "idle"
    /\ c.calls < limits.cleanups
    /\ tasks' = cleanup_all_timeouts.tasks
    /\ user_timeout_tasks' = cleanup_all_timeouts.map
    /\ clear_all_buffers
    /\ c' = [c EXCEPT !.calls = c.calls + 1, !.returned_at = now,
                      !.nwrites = nwrites, !.quiet = (w.pc = "idle")]
    /\ last' = [op |-> "cleanup"]
    /\ UNCHANGED <<processing_locks, running, w, now, nwrites, speakers, limits,
                   last_accept>>

\* The loop runs task.cancel() for a timer whose future was cancelled: the
\* CancelledError is raised at the await the task is suspended in, and only
\* the finally block of _timeout_handler runs (line 236)
DiscordDeliverCancel(t) ==
    /\ tasks[t].kind = "timer"
    /\ tasks[t].cancelReq
    /\ tasks[t].pc \in {"sleep", "transcribing"}
    /\ running = 0
    /\ Exit(t, FALSE)
    /\ last' = [op |-> IF tasks[t].pc = "transcribing" THEN "abort" ELSE "cancel",
                user |-> tasks[t].user]
    /\ UNCHANGED <<bufVars, w, c, now, nwrites, speakers, limits, last_accept>>

InitDiscordCleanup ==
    Start({"A"}, [writes |-> MaxWrites, time |-> 2 * segment_timeout,
                  cleanups |-> MaxCleanups, sizes |-> DiscordSizes])

NextDiscordCleanup ==
    \/ NextDiscord
    \/ DiscordCleanup
    \/ \E t \in TaskIds : DiscordDeliverCancel(t)

SpecDiscordCleanup == InitDiscordCleanup /\ [][NextDiscordCleanup]_vars

(***************************************************************************)
(* BufferManager and TimeoutManager driven directly, one call after the     *)
(* other, by a caller that waits until the event loop has nothing to run.   *)
(* last records the call, whether the speaker had a session (a buffer), and *)
(* what the call returned.                                                  *)
(***************************************************************************)
InitCalls ==
    Start({"A"}, [writes |-> MaxCalls, time |-> 0, cleanups |-> 0, sizes |-> ChunkSizes])

\* the caller may make a call
CallReady ==
    /\ w.pc = "idle"
    /\ running = 0
    /\ nwrites < limits.writes
    /\ \A t \in TaskIds : tasks[t].pc # "queued"

\* prev holds what the same call returned when the call made immediately
\* before was the same one for the same speaker
Called(fn, u, ret) ==
    [op |-> "call", fn |-> fn, user |-> u, known |-> u \in DOMAIN user_buffers, ret |-> ret,
     prev |-> IF last.op = "call" /\ last.fn = fn /\ last.user = u
              THEN <<last.ret>> ELSE <<>>]

CallInitializeUser(u) ==
    /\ CallReady
    /\ nwrites' = nwrites + 1
    /\ initialize_user(u, now)
    /\ last' = Called("initialize_user", u, "None")
    /\ UNCHANGED <<user_speech_start, user_timeout_tasks, tasks, running, w, c, now,
                   speakers, limits, last_accept>>

CallAddAudioChunk(u, n) ==
    /\ CallReady
    /\ nwrites' = nwrites + 1
    /\ add_audio_chunk(u, [id |-> nwrites + 1, len |-> n, locked |-> is_processing_locked(u)],
                       now)
    /\ last' = Called("add_audio_chunk", u,
                      IF u \in DOMAIN user_buffers THEN "None" ELSE "KeyError")
    /\ UNCHANGED <<processing_locks, user_timeout_tasks, tasks, running, w, c, now,
                   speakers, limits, last_accept>>

CallGetBufferDuration(u) ==
    /\ CallReady
    /\ nwrites' = nwrites + 1
    /\ last' = Called("get_buffer_duration", u, get_buffer_duration(u))
    /\ UNCHANGED <<bufVars, processing_locks, user_timeout_tasks, tasks, running, w, c,
                   now, speakers, limits, last_accept>>

\* clear_user_buffer that returns the segment and leaves the chunks in the buffer
clear_user_buffer_keep(u) ==
    [ret |-> Get(user_buffers, u, <<>>),
     buffers |-> user_buffers,
     speech |-> user_speech_start]

\* BufferManager.clear_user_buffer run without interruption: what it returns,
\* and the maps after it
clear_user_buffer(u) ==
    IF u \notin DOMAIN user_buffers \/ Len(user_buffers[u]) = 0
    THEN [ret |-> <<>>, buffers |-> user_buffers, speech |-> user_speech_start]
    ELSE [ret |-> user_buffers[u],
          buffers |-> [user_buffers EXCEPT ![u] = <<>>],
          speech |-> Del(user_speech_start, u)]

CallClearUserBuffer(u) ==
    /\ CallReady
    /\ nwrites' = nwrites + 1
    /\ user_buffers' = clear_user_buffer(u).buffers
    /\ user_speech_start' = clear_user_buffer(u).speech
    /\ last' = Called("clear_user_buffer", u, clear_user_buffer(u).ret)
    /\ UNCHANGED <<user_last_activity, user_last_packet_time, processing_locks,
                   user_timeout_tasks, tasks, running, w, c, now, speakers, limits,
                   last_accept>>

CallIsProcessingLocked(u) ==
    /\ CallReady
    /\ nwrites' = nwrites + 1
    /\ last' = Called("is_processing_locked", u, is_processing_locked(u))
    /\ UNCHANGED <<bufVars, processing_locks, user_timeout_tasks, tasks, running, w, c,
                   now, speakers, limits, last_accept>>

CallScheduleTimeout(u) ==
    /\ CallReady
    /\ nwrites' = nwrites + 1
    /\ tasks' = schedule_timeout(u).tasks
    /\ user_timeout_tasks' = schedule_timeout(u).map
    /\ last' = Called("schedule_timeout", u, "None")
    /\ UNCHANGED <<bufVars, processing_locks, running, w, c, now, speakers, limits,
                   last_accept>>

\* TimeoutManager.cancel_timeout: the tasks and the task map after it
cancel_timeout(u) ==
    IF u \in DOMAIN user_timeout_tasks
    THEN [tasks |-> RequestCancel(tasks, user_timeout_tasks[u]),
          map |-> Del(user_timeout_tasks, u)]
    ELSE [tasks |-> tasks, map |-> user_timeout_tasks]

CallCancelTimeout(u) ==
    /\ CallReady
    /\ nwrites' = nwrites + 1
    /\ tasks' = cancel_timeout(u).tasks
    /\ user_timeout_tasks' = cancel_timeout(u).map
    /\ last' = Called("cancel_timeout", u, "None")
    /\ UNCHANGED <<bufVars, processing_locks, running, w, c, now, speakers, limits,
                   last_accept>>

\* process_user_buffer(u) handed to the event loop
CallProcessUserBuffer(u) ==
    /\ CallReady
    /\ nwrites' = nwrites + 1
    /\ tasks' = Append(tasks, NewTask("flush", u, "direct", {}))
    /\ last' = Called("process_user_buffer", u, "None")
    /\ UNCHANGED <<bufVars, processing_locks, user_timeout_tasks, running, w, c, now,
                   speakers, limits, last_accept>>

NextCalls ==
    \/ \E u \in speakers : CallInitializeUser(u)
    \/ \E u \in speakers, n \in limits.sizes : CallAddAudioChunk(u, n)
    \/ \E u \in speakers : CallGetBufferDuration(u)
    \/ \E u \in speakers : CallClearUserBuffer(u)
    \/ \E u \in speakers : CallIsProcessingLocked(u)
    \/ \E u \in speakers : CallScheduleTimeout(u)
    \/ \E u \in speakers : CallCancelTimeout(u)
    \/ \E u \in speakers : CallProcessUserBuffer(u)
    \/ \E t \in TaskIds : FlushStart(t)
    \/ \E t \in TaskIds : Join(t)
    \/ \E t \in TaskIds : Clear(t)
    \/ \E t \in TaskIds, r \in GatewayResults : GatewayReturn(t, r)
    \/ \E t \in TaskIds : DeliverCancel(t)

SpecCalls == InitCalls /\ [][NextCalls]_vars

(***************************************************************************)
(* AudioProcessor on byte strings.  A byte string is a sequence of numbers *)
(* in 0..255; w holds the string handed to the function and last what the  *)
(* function returned.                                                      *)
(***************************************************************************)
\* the values of the 16-bit words the byte strings are made of
SampleValues == {0, -1, 32767, -32768}

\* the sample rates handed to pcm_to_wav
SampleRates == {8000, 16000, 32000, 44100, 48000}

\* struct.unpack("<h", ...): two bytes read as a signed little-endian integer
unpack_h(lo, hi) ==
    IF lo + 256 * hi >= 32768 THEN lo + 256 * hi - 65536 ELSE lo + 256 * hi

\* struct.pack("<h", v) for v in the range of a signed 16-bit integer
pack_h(v) ==
    IF v < 0 THEN <<(v + 65536) % 256, (v + 65536) \div 256>> ELSE <<v % 256, v \div 256>>

RECURSIVE pack(_)
pack(samples) ==
    IF samples = <<>> THEN <<>> ELSE pack_h(Head(samples)) \o pack(Tail(samples))

\* the byte strings: up to MaxWords words, followed or not by one more byte
RECURSIVE WordSeqs(_)
WordSeqs(n) ==
    IF n = 0 THEN {<<>>}
    ELSE WordSeqs(n - 1) \cup
         {Append(ws, v) : ws \in {x \in WordSeqs(n - 1) : Len(x) = n - 1}, v \in SampleValues}

ByteStrings == {pack(ws) \o tail : ws \in WordSeqs(MaxWords), tail \in {<<>>, <<1>>}}

\* the mix of a frame with the division rounding towards zero
mixed_sample_trunc(left, right) ==
    IF left + right < 0 THEN -((-(left + right)) \div 2) ELSE (left + right) \div 2

\* line 38: (left_sample + right_sample) // 2
mixed_sample(left, right) == (left + right) \div 2

\* lines 33-39: one sample for every complete frame of 4 bytes
RECURSIVE mono_samples(_)
mono_samples(d) ==
    IF Len(d) < 4 THEN <<>>
    ELSE <<mixed_sample(unpack_h(d[1], d[2]), unpack_h(d[3], d[4]))>>
             \o mono_samples(SubSeq(d, 5, Len(d)))

\* AudioProcessor.stereo_to_mono on a byte string.  struct.pack raises for a
\* sample out of the 16-bit range; the except branch (line 47) then returns
\* the input cut to a multiple of 4 bytes.
stereo_to_mono_bytes(d) ==
    IF Len(d) < 4 THEN d
    ELSE IF \E i \in 1..Len(mono_samples(d)) :
               mono_samples(d)[i] < -32768 \/ mono_samples(d)[i] > 32767
         THEN SubSeq(d, 1, Len(d) - (Len(d) % 4))
         ELSE pack(mono_samples(d))

\* every resample_factor-th sample, the first included, then the one after it
RECURSIVE decimate_after(_, _)
decimate_after(d, step) ==
    IF Len(d) < 4 THEN <<>>
    ELSE <<d[3], d[4]>> \o decimate_after(SubSeq(d, 2 * step + 1, Len(d)), step)

\* audio_array[::resample_factor] on the bytes of 16-bit samples
RECURSIVE decimate(_, _)
decimate(d, step) ==
    IF Len(d) < 2 THEN <<>>
    ELSE <<d[1], d[2]>> \o decimate(SubSeq(d, 2 * step + 1, Len(d)), step)

\* AudioProcessor.pcm_to_wav of src/src/audio/streaming_sink.py: np.frombuffer
\* raises for a string of odd length, and a slice step of 0 raises; else
\* the parameters of the wave file and the frames written to it
pcm_to_wav(d, rate) ==
    IF Len(d) % 2 = 1 \/ (rate # 16000 /\ rate \div 16000 = 0)
    THEN [raised |-> TRUE]
    ELSE [raised |-> FALSE, nchannels |-> 1, sampwidth |-> 2, framerate |-> 16000,
          frames |-> IF rate # 16000 THEN decimate(d, rate \div 16000) ELSE d]

InitAudio ==
    /\ user_buffers = EmptyMap
    /\ user_last_activity = EmptyMap
    /\ user_speech_start = EmptyMap
    /\ user_last_packet_time = EmptyMap
    /\ processing_locks = EmptyMap
    /\ user_timeout_tasks = EmptyMap
    /\ tasks = <<>>
    /\ running = 0
    /\ w \in {[pc |-> "data", data |-> d] : d \in ByteStrings}
    /\ c = [pc |-> "idle", calls |-> 0, returned_at |-> 0, nwrites |-> 0, quiet |-> TRUE]
    /\ now = 0
    /\ nwrites = 0
    /\ speakers = {}
    /\ limits = [writes |-> 0, time |-> 0, cleanups |-> 0, sizes |-> {}]
    /\ last = NoEvent
    /\ last_accept = EmptyMap

ApplyStereoToMono ==
    /\ w.pc = "data"
    /\ last' = [op |-> "stereo_to_mono", input |-> w.data,
                output |-> stereo_to_mono_bytes(w.data)]
    /\ UNCHANGED <<bufVars, processing_locks, user_timeout_tasks, tasks, running, w, c,
                   now, nwrites, speakers, limits, last_accept>>

ApplyPcmToWav(rate) ==
    /\ w.pc = "data"
    /\ last' = [op |-> "pcm_to_wav", input |-> w.data, rate |-> rate,
                wav |-> pcm_to_wav(w.data, rate)]
    /\ UNCHANGED <<bufVars, processing_locks, user_timeout_tasks, tasks, running, w, c,
                   now, nwrites, speakers, limits, last_accept>>

NextAudio ==
    \/ ApplyStereoToMono
    \/ \E rate \in SampleRates : ApplyPcmToWav(rate)

SpecAudio == InitAudio /\ [][NextAudio]_vars

(***************************************************************************)
(* Properties.                                                             *)
(***************************************************************************)
\* C1: for every speaker, at most one process_user_buffer execution is
\* between extraction and completion at any instant: at most one
\* transcription call per speaker is in flight.
C1_OneTranscriptionInFlight ==
    \A u \in Users :
        Cardinality({t \in TaskIds : tasks[t].user = u /\ tasks[t].pc = "transcribing"}) <= 1

\* C2: clear_user_buffer is atomic with respect to a concurrent
\* add_audio_chunk: an extraction never removes from the buffer a chunk that
\* is not part of the segment it returns.
C2_ExtractionAtomic ==
    last.op = "extract" => ~last.lost

\* C3: once transcribe_bytes has been called for a segment, no later write,
\* schedule_timeout, cancel_timeout or cleanup aborts the call: it ends only
\* when the gateway returns or fails.
C3_TranscriptionNotAborted ==
    last.op # "abort"

\* C4: for each speaker at most one timeout_handler is alive (armed, not
\* finished and not cancelled) at any instant, and user_timeout_tasks[speaker],
\* when present, refers to that handler.
C4_OneTimerAlive ==
    \A u \in Users :
        LET alive == {t \in TaskIds : /\ tasks[t].kind = "timer"
                                      /\ tasks[t].user = u
                                      /\ ~tasks[t].cancelReq}
        IN  /\ Cardinality(alive) <= 1
            /\ u \in DOMAIN user_timeout_tasks => user_timeout_tasks[u] \in alive

\* C5: a timeout_handler that wakes up less than segment_timeout after a
\* packet of its speaker was accepted (add_audio_chunk returned) does not
\* trigger a flush: a timer-triggered flush only happens when the time since
\* the speaker's last packet is at least segment_timeout.
C5_TimerRevalidates ==
    (last.op = "wake" /\ last.fires) => ~last.recent

\* a handler woke up right after a packet was accepted, and did not flush
C5_Witness ==
    last.op = "wake" /\ last.recent /\ ~last.fires

\* C6 as stated: when the buffered duration has reached the force threshold
\* while a transcription holds the processing lock, write triggers a force
\* flush even though the lock is held.
C6_ForceFlushWhileLocked ==
    (/\ w.pc = "sched" /\ w.reached /\ w.locked
     /\ \E t \in TaskIds : tasks[t].user = w.user /\ tasks[t].pc = "transcribing")
        => w.submitted = "force"

\* C6: write triggers a force flush exactly when the buffered duration has
\* reached force_process_threshold and the speaker's processing lock is free
\* at the check; while the lock is held write submits no flush, however much
\* audio is buffered.
C6_ForceFlushOnlyUnlocked ==
    w.pc = "sched" =>
        /\ w.submitted = "force" <=> (w.reached /\ ~w.locked)
        /\ w.locked => w.submitted = "none"

\* the buffer reached the force threshold while a transcription held the
\* lock, and write submitted nothing
C6_Witness ==
    /\ w.pc = "sched" /\ w.reached /\ w.locked /\ w.submitted = "none"
    /\ \E t \in TaskIds : tasks[t].user = w.user /\ tasks[t].pc = "transcribing"

\* C7: no packet appended while the speaker's processing lock is held is
\* dropped: the extraction that follows returns it in its segment.
C7_BacklogKept ==
    last.op = "extract" => ~last.lostLocked

\* C8: every process_user_buffer execution that acquired the processing lock
\* releases it when it ends, whatever the outcome: the lock of a speaker is
\* held only while an execution that acquired it is still running.
C8_LockReleased ==
    \A u \in DOMAIN processing_locks :
        processing_locks[u] =>
            \E t \in TaskIds : /\ tasks[t].user = u
                               /\ tasks[t].pc \in {"join", "clear", "transcribing"}

\* an execution that held the lock was ended by the cancellation of its
\* timer task, and the lock is free
C8_Witness ==
    last.op = "abort" /\ ~is_processing_locked(last.user)

\* C9: the flush cleanup submits for a speaker whose buffer is not empty
\* extracts the audio that was buffered when cleanup was called.
C9_FinalFlushExtracts ==
    last.op \in {"start", "empty", "error", "extract"} => last.final # "lost"

\* C10: no timeout_handler armed before a cleanup call executes code after
\* its sleep once that call has returned (here: a handler that was still in
\* its sleep when cleanup returned).
C10_NoStragglerTimer ==
    last.op = "wake" => ~last.straggler

\* C11: once cleanup has returned and every task that was in flight or was
\* submitted by it has finished, with no write during or after cleanup, no
\* per-speaker state remains in user_buffers, user_speech_start,
\* user_last_activity, user_last_packet_time, processing_locks and
\* user_timeout_tasks.
C11_NoStateAfterCleanup ==
    (/\ c.calls > 0 /\ c.pc = "idle" /\ c.quiet /\ c.nwrites = nwrites
     /\ w.pc = "idle" /\ tasks = <<>>)
        => /\ user_buffers = EmptyMap
           /\ user_speech_start = EmptyMap
           /\ user_last_activity = EmptyMap
           /\ user_last_packet_time = EmptyMap
           /\ processing_locks = EmptyMap
           /\ user_timeout_tasks = EmptyMap

\* C12: transcribe_bytes is called for an extracted segment exactly when the
\* duration len(segment)/(sample_rate*2) of the segment is at least
\* min_speech_duration: a shorter segment is dropped, every other segment is
\* passed to the gateway.
C12_GatewayIffLongEnough ==
    last.op = "extract" =>
        (last.called <=> last.bytes * 10 >= min_speech_duration_tenths * sample_rate * 2)

\* C13 as stated: a segment of exactly min_speech_duration (0.3 s) that a
\* timer flush extracts is discarded without the gateway being called.
C13_ExactMinimumDiscarded ==
    (/\ last.op = "extract" /\ last.kind = "timer"
     /\ last.bytes * 10 = min_speech_duration_tenths * sample_rate * 2)
        => ~last.called

\* C13: the duration test is duration < min_speech_duration: an extracted
\* segment of exactly 0.3 s is passed to the gateway, and only a shorter one
\* is discarded without the gateway being called.
C13_ExactMinimumTranscribed ==
    last.op = "extract" =>
        /\ last.bytes * 10 = min_speech_duration_tenths * sample_rate * 2 => last.called
        /\ last.bytes * 10 < min_speech_duration_tenths * sample_rate * 2 => ~last.called

\* the speaker sent 0.3 s of audio and stopped; the timer's flush passed the
\* segment to the gateway
C13_Witness ==
    /\ last.op = "extract" /\ last.kind = "timer" /\ last.called
    /\ last.bytes * 10 = min_speech_duration_tenths * sample_rate * 2

\* C14: for an unlocked speaker, write submits a flush when the buffered
\* duration it finds after its append has reached buffer_duration, and write
\* never submits a threshold flush while the buffered duration is below
\* buffer_duration.
C14_ThresholdFlush ==
    w.pc = "sched" =>
        /\ (w.full /\ ~w.locked) => w.submitted \in {"threshold", "force"}
        /\ w.submitted = "threshold" => w.full
        /\ ~w.full => w.submitted = "none"

\* the append made the buffer reach exactly buffer_duration, the lock was
\* free, and write submitted a threshold flush
C14_Witness ==
    /\ w.pc = "sched" /\ ~w.locked /\ w.submitted = "threshold"
    /\ get_buffer_duration(w.user) = buffer_duration * sample_rate

\* C15 as stated, for packets of one second: no flush is submitted before the
\* buffer reaches force_process_threshold, and the write of the packet that
\* completes 8 s of audio submits a force-triggered flush.
C15_ForceFlushAtEight ==
    w.pc = "sched" =>
        /\ nwrites < force_process_threshold => w.submitted = "none"
        /\ nwrites = force_process_threshold => w.submitted = "force"

\* C15: in 12 s of continuous audio the first flush is the threshold flush
\* submitted by the write that brings the buffer to buffer_duration (5 s);
\* write submits no force-triggered flush, and no extracted segment is as long
\* as force_process_threshold (8 s): the audio is never flushed as one 12 s
\* segment.
C15_ThresholdFlushAtFive ==
    /\ w.pc = "sched" =>
          /\ nwrites < buffer_duration => w.submitted = "none"
          /\ nwrites = buffer_duration => w.submitted = "threshold"
          /\ w.submitted # "force"
    /\ \A t \in TaskIds :
          /\ tasks[t].trigger # "force"
          /\ SumLen(tasks[t].seg) < force_process_threshold * sample_rate * 2

\* the 12 s were sent, and the flush of the timer extracted what was left
C15_Witness ==
    /\ nwrites = limits.writes
    /\ last.op = "extract" /\ last.kind = "timer" /\ last.called

\* C16: send_transcription is invoked for a segment exactly when its gateway
\* call returned a text that is not empty once stripped (never after a
\* failure, a missing, empty or white-space text), with the stripped text and
\* the duration of the segment as it was extracted.
C16_SendTranscription ==
    /\ [](last.op = "return" =>
            /\ last.sent <=> last.result = "text"
            /\ last.sent => last.text = <<"h", "i">>)
    /\ [][last'.op = "return" =>
            \E t \in TaskIds :
                /\ tasks[t].pc = "transcribing"
                /\ tasks' = Remove(tasks, t)
                /\ last'.user = tasks[t].user
                /\ last'.duration = SumLen(tasks[t].seg)]_vars

\* a text was delivered for a segment, with the duration of its bytes
C16_Witness ==
    /\ last.op = "return" /\ last.sent /\ last.text = <<"h", "i">>
    /\ last.duration = 5 * sample_rate * 2

\* C17: a failed gateway call is terminal for its segment: the execution ends
\* without another call (the gateway is called at most once per extracted
\* segment), the audio of the segment is not put back into the buffer, and
\* the processing lock is released, so that later packets and flushes of the
\* speaker proceed.
C17_FailureTerminal ==
    /\ [](\A t \in TaskIds :
            tasks[t].pc = "transcribing" =>
                /\ Ids(tasks[t].seg) \cap Ids(Get(user_buffers, tasks[t].user, <<>>)) = {}
                /\ \A t2 \in TaskIds \ {t} :
                      Ids(tasks[t].seg) \cap Ids(tasks[t2].seg) = {})
    /\ [][(last'.op = "return" /\ last'.result = "fail") =>
            \E t \in TaskIds :
                /\ tasks[t].pc = "transcribing"
                /\ tasks' = Remove(tasks, t)
                /\ user_buffers' = user_buffers
                /\ ~Get(processing_locks', tasks[t].user, FALSE)]_vars

\* a gateway call failed; the lock is free and the packets accepted during the
\* call are in the buffer, with a timer armed to flush them
C17_Witness ==
    /\ last.op = "return" /\ last.result = "fail"
    /\ ~is_processing_locked(last.user)
    /\ get_buffer_duration(last.user) > 0
    /\ \E t \in TaskIds : tasks[t].kind = "timer" /\ tasks[t].pc = "sleep"
                           /\ ~tasks[t].cancelReq

\* C18: a step taken for one speaker (a step of write, a flush, a timer
\* firing or being cancelled, a gateway answer) leaves every other speaker's
\* buffer, processing lock, speech-start time, last-packet time, pending timer
\* and tasks unchanged.
C18_OtherSpeakerUnchanged ==
    [][\A b \in Users :
        LET other ==
               /\ c' = c
               /\ ~(w' # w /\ (IF w.pc = "idle" THEN w'.user ELSE w.user) = b)
               /\ ~(last'.op # "none" /\ last'.user = b)
            entry(m) == IF b \in DOMAIN m THEN <<m[b]>> ELSE <<>>
            timer(m, ts) == IF b \in DOMAIN m THEN <<ts[m[b]]>> ELSE <<>>
            own(ts) == SelectSeq(ts, LAMBDA x : x.user = b)
        IN  other =>
               /\ entry(user_buffers') = entry(user_buffers)
               /\ entry(processing_locks') = entry(processing_locks)
               /\ entry(user_speech_start') = entry(user_speech_start)
               /\ entry(user_last_packet_time') = entry(user_last_packet_time)
               /\ entry(user_last_activity') = entry(user_last_activity)
               /\ timer(user_timeout_tasks', tasks') = timer(user_timeout_tasks, tasks)
               /\ own(tasks') = own(tasks)]_vars

\* a transcription of speaker A failed while speaker B had audio buffered and
\* a timer pending
C18_Witness ==
    /\ last.op = "return" /\ last.user = "A" /\ last.result = "fail"
    /\ "B" \in DOMAIN user_timeout_tasks
    /\ get_buffer_duration("B") > 0

\* C19: write never raises to its caller, whatever the packet and however
\* cleanup interleaves with it.
C19_WriteNeverRaises ==
    last.op # "raise"

\* C20: once a timeout_handler's sleep has elapsed and the handler runs the
\* flush, the speaker's entry of user_timeout_tasks no longer refers to that
\* handler: a write arriving during the flush cannot find or cancel it.
C20_EntryRemovedBeforeFlush ==
    \A t \in TaskIds :
        (tasks[t].kind = "timer" /\ tasks[t].pc \in {"join", "clear", "transcribing"})
            => ~(/\ tasks[t].user \in DOMAIN user_timeout_tasks
                 /\ user_timeout_tasks[tasks[t].user] = t)

\* C21: with no write in progress (and no cleanup call made), a speaker whose
\* buffer is not empty and whose processing lock is free has a timeout_handler
\* armed (Accumulating), and a speaker whose buffer is empty and who has no
\* flush in flight has no timeout_handler armed (Idle).
C21_TimerIffAccumulating ==
    (w.pc = "idle" /\ c.calls = 0) =>
        \A u \in Users :
            LET armed == \E t \in TaskIds : /\ tasks[t].kind = "timer"
                                            /\ tasks[t].user = u
                                            /\ tasks[t].pc = "sleep"
                                            /\ ~tasks[t].cancelReq
                inflight == \E t \in TaskIds : /\ tasks[t].user = u
                                               /\ tasks[t].pc # "sleep"
            IN  /\ (get_buffer_duration(u) > 0 /\ ~is_processing_locked(u)) => armed
                /\ (get_buffer_duration(u) = 0 /\ ~inflight) => ~armed

\* C22: for the chunks appended for a speaker since the last extraction,
\* get_buffer_duration is exactly sum(len(chunk))/(sample_rate*2): twice the
\* number of samples it counts is the number of bytes buffered, also when a
\* chunk of odd length was appended.
C22_DurationExact ==
    \A u \in DOMAIN user_buffers :
        2 * get_buffer_duration(u) = SumLen(user_buffers[u])

\* C23: clear_user_buffer returns the chunks buffered for the speaker, all of
\* them and in the order of their arrival, and leaves the buffer empty; called
\* again immediately it returns the empty segment and changes nothing.
C23_DrainIdempotent ==
    /\ [](last.op = "call" /\ last.fn = "clear_user_buffer" =>
            /\ Get(user_buffers, last.user, <<>>) = <<>>
            /\ \A i, j \in 1..Len(last.ret) : i < j => last.ret[i].id < last.ret[j].id
            /\ last.prev # <<>> => last.ret = <<>>)
    /\ [][last'.op = "call" /\ last'.fn = "clear_user_buffer" =>
            /\ last'.ret = Get(user_buffers, last'.user, <<>>)
            /\ last'.prev # <<>> =>
                  /\ bufVars' = bufVars
                  /\ processing_locks' = processing_locks
                  /\ user_timeout_tasks' = user_timeout_tasks
                  /\ tasks' = tasks]_vars

\* two chunks were drained in the order of their arrival, and the call made
\* again at once returned the empty segment
C23_Witness ==
    /\ last.op = "call" /\ last.fn = "clear_user_buffer"
    /\ last.prev # <<>> /\ last.ret = <<>>
    /\ Len(last.prev[1]) = 2 /\ last.prev[1][1].id < last.prev[1][2].id

\* C24: for a speaker that has no session (no entry in any per-speaker map),
\* get_buffer_duration returns 0, clear_user_buffer returns the empty segment,
\* is_processing_locked returns False and cancel_timeout does nothing; none of
\* them raises or creates a per-speaker entry, and a process_user_buffer run
\* for a speaker without session leaves no per-speaker entry behind either.
C24_UnknownSpeakerNoOp ==
    /\ [][(/\ last'.op = "call"
           /\ last'.fn \in {"get_buffer_duration", "clear_user_buffer",
                            "is_processing_locked", "cancel_timeout"}
           /\ last'.user \notin DOMAIN user_buffers \cup DOMAIN user_last_activity
                                \cup DOMAIN user_speech_start \cup DOMAIN user_last_packet_time
                                \cup DOMAIN processing_locks \cup DOMAIN user_timeout_tasks)
            => /\ last'.fn = "get_buffer_duration" => last'.ret = 0
               /\ last'.fn = "clear_user_buffer" => last'.ret = <<>>
               /\ last'.fn = "is_processing_locked" => last'.ret = FALSE
               /\ last'.fn = "cancel_timeout" => last'.ret = "None"
               /\ bufVars' = bufVars
               /\ processing_locks' = processing_locks
               /\ user_timeout_tasks' = user_timeout_tasks
               /\ tasks' = tasks]_vars
    /\ [](last.op = "empty" /\ last.user \notin DOMAIN user_buffers
            => last.user \notin DOMAIN processing_locks)

\* C25: for every byte string of length n, stereo_to_mono returns exactly
\* 2*floor(n/4) bytes: an incomplete frame at the end is cut off, and an
\* input shorter than 4 bytes gives the empty string.
C25_MonoLength ==
    last.op = "stereo_to_mono" =>
        Len(last.output) = 2 * (Len(last.input) \div 4)

\* C26: for a stereo input whose length is a multiple of 4, stereo_to_mono
\* returns a string of half the length whose i-th 16-bit sample is
\* floor((left_i + right_i)/2), a value of the signed 16-bit range; an input
\* of zeros gives an output of zeros.
C26_MonoAverage ==
    (last.op = "stereo_to_mono" /\ Len(last.input) % 4 = 0) =>
        /\ 2 * Len(last.output) = Len(last.input)
        /\ \A i \in 1..(Len(last.input) \div 4) :
              LET left == unpack_h(last.input[4 * i - 3], last.input[4 * i - 2])
                  right == unpack_h(last.input[4 * i - 1], last.input[4 * i])
                  mono == unpack_h(last.output[2 * i - 1], last.output[2 * i])
              IN  /\ 2 * mono <= left + right
                  /\ left + right < 2 * mono + 2
                  /\ mono \in -32768..32767
        /\ (\A k \in 1..Len(last.input) : last.input[k] = 0)
              => \A k \in 1..Len(last.output) : last.output[k] = 0

\* the frames (-1, 0) and (32767, 32767) gave the samples -1 and 32767
C26_Witness ==
    /\ last.op = "stereo_to_mono"
    /\ last.input = <<255, 255, 0, 0, 255, 127, 255, 127>>
    /\ last.output = <<255, 255, 255, 127>>

\* C27: for a source rate that is a positive multiple of 16000, with
\* N = rate/16000, pcm_to_wav (src/src/audio/streaming_sink.py) given n
\* 16-bit samples writes a wave file of one channel, 16 bit, 16000 Hz whose
\* frames are the input samples 0, N, 2N, ... in order: ceil(n/N) samples.
C27_Decimation ==
    (/\ last.op = "pcm_to_wav"
     /\ last.rate > 0 /\ last.rate % 16000 = 0
     /\ Len(last.input) % 2 = 0) =>
        LET N == last.rate \div 16000
            n == Len(last.input) \div 2
            kept == (n + N - 1) \div N
        IN  /\ ~last.wav.raised
            /\ last.wav.nchannels = 1
            /\ last.wav.sampwidth = 2
            /\ last.wav.framerate = 16000
            /\ Len(last.wav.frames) = 2 * kept
            /\ \A k \in 0..(kept - 1) :
                  /\ last.wav.frames[2 * k + 1] = last.input[2 * k * N + 1]
                  /\ last.wav.frames[2 * k + 2] = last.input[2 * k * N + 2]

\* of the samples 0, -1, 32767, -32768 at 48000 Hz, the first and the fourth
\* were kept
C27_Witness ==
    /\ last.op = "pcm_to_wav" /\ last.rate = 48000
    /\ last.input = <<0, 0, 255, 255, 255, 127, 0, 128>>
    /\ ~last.wav.raised
    /\ last.wav.frames = <<0, 0, 0, 128>>

\* C28: when every gateway call returns or fails and the scheduled tasks
\* run, the audio a speaker has buffered when the packets stop is extracted
\* by a flush without a further packet: from some moment on the buffer of
\* every speaker is empty, also when a timer fired while a previous flush
\* held the lock.
C28_StoppedSpeakerFlushed ==
    <>[](\A u \in Users : get_buffer_duration(u) = 0)

\* C29: in DiscordAudioSink, when every gateway call returns, the audio a
\* speaker has buffered when the packets stop is flushed without a further
\* packet: from some moment on the buffer of every speaker is empty, also
\* when the one timer that was armed woke up less than segment_timeout after
\* the last packet and did nothing.
C29_DiscordStoppedSpeakerFlushed ==
    <>[](\A u \in Users : get_buffer_duration(u) = 0)

\* C30: DiscordAudioSink checks the thresholds after every append: when a
\* write has returned and the speaker's buffered duration has reached
\* force_process_threshold, a flush of the speaker's buffer was triggered
\* (a task of the speaker is past its sleep), without waiting for silence.
C30_DiscordThresholdFlush ==
    \A u \in Users :
        (w.pc = "idle" /\ ReachedForce(u)) =>
            \E t \in TaskIds : tasks[t].user = u /\ tasks[t].pc # "sleep"

(***************************************************************************)
(* StreamingAudioSink of src/src/streaming_audio_sink.py: the sink that    *)
(* keeps an overlap between segments and has a prompt mode.  Time is in    *)
(* tenths of a second.  The maps this sink has beyond the ones above are   *)
(* the fields of the record c.  A text is represented by the segment it is *)
(* the transcription of, so merge_transcriptions, which shortens a text    *)
(* but never empties it, is left out.                                      *)
(***************************************************************************)
silence_timeout_tenths == 5
prompt_silence_timeout_tenths == 20
overlap_duration_tenths == 5
max_buffer_size == 10

\* Sizes, in bytes, of the stereo packets handed to write: 0.2 s and 5 s.
SinkSizes == {38400, 960000}

\* config['prompt_max_duration'] the sink is constructed with, in tenths
PromptCaps == {30}

\* the time that passes in one step of the clock, in tenths
TickTenths == 5

user_overlap_buffers == c.user_overlap_buffers
user_prompt_active == c.user_prompt_active
user_prompt_start == c.user_prompt_start
user_prompt_transcriptions == c.user_prompt_transcriptions
user_prompt_finalizing == c.user_prompt_finalizing

\* process_user_buffer, line 327
overlap_samples == (overlap_duration_tenths * sample_rate * 2) \div 10

\* has_speech: calculate_energy returns 0.0 when np.frombuffer raises, which
\* it does for a byte string of odd length; loud says whether the energy of
\* the samples is above energy_threshold
has_speech(n, loud) == loud /\ n % 2 = 0

\* b''.join(buffer): each chunk whole.  Audio is a sequence of pieces, a
\* piece being len bytes of chunk id from offset from on.
Pieces(buf) ==
    [i \in 1..Len(buf) |-> [id |-> buf[i].id, from |-> 0, len |-> buf[i].len,
                            prompt |-> buf[i].prompt]]

\* audio[-n:] for audio longer than n bytes
RECURSIVE LastBytes(_, _)
LastBytes(s, n) ==
    IF n = 0 \/ s = <<>> THEN <<>>
    ELSE LET p == s[Len(s)] IN
         IF p.len >= n
         THEN <<[p EXCEPT !.from = p.from + p.len - n, !.len = n]>>
         ELSE LastBytes(SubSeq(s, 1, Len(s) - 1), n - p.len) \o <<p>>

\* process_user_buffer, lines 330-335: the overlap map after the tail of the
\* joined audio is stored, and the overlap that is prepended
overlap(u, joined) ==
    LET stored == IF SumLen(joined) > overlap_samples
                  THEN Put(user_overlap_buffers, u, LastBytes(joined, overlap_samples))
                  ELSE user_overlap_buffers
    IN  [stored |-> stored, prefix |-> Get(stored, u, <<>>)]

\* write, lines 438-443: the oldest chunks are removed while the buffer holds
\* more than max_buffer_size seconds
RECURSIVE Trimmed(_)
Trimmed(buf) ==
    IF buf # <<>> /\ SumLen(buf) \div 2 > max_buffer_size * sample_rate
    THEN Trimmed(Tail(buf)) ELSE buf

SinkTask(kind, u, timeout) ==
    [kind |-> kind, user |-> u, pc |-> IF kind = "timer" THEN "sleep" ELSE "queued",
     cancelReq |-> FALSE, wake_at |-> now + timeout, own |-> <<>>, seg |-> <<>>]

\* the prompts of the chunks of a segment (history)
Tags(s) == {s[i].prompt : i \in 1..Len(s)}

InitSink ==
    /\ user_buffers = EmptyMap
    /\ user_last_activity = EmptyMap
    /\ user_speech_start = EmptyMap
    /\ user_last_packet_time = EmptyMap
    /\ processing_locks = EmptyMap
    /\ user_timeout_tasks = EmptyMap
    /\ tasks = <<>>
    /\ running = 0
    /\ w = [pc |-> "idle"]
    /\ c = [pc |-> "idle",
            user_overlap_buffers |-> EmptyMap,
            user_prompt_active |-> EmptyMap,
            user_prompt_start |-> EmptyMap,
            user_prompt_transcriptions |-> EmptyMap,
            user_prompt_finalizing |-> EmptyMap,
            \* history: the number of prompts started
            prompts |-> 0]
    /\ now = 0
    /\ nwrites = 0
    /\ speakers = {"A"}
    /\ \E mode \in BOOLEAN, cap \in PromptCaps :
          limits = [writes |-> MaxWrites, time |-> 2 * prompt_silence_timeout_tenths,
                    sizes |-> SinkSizes, prompt_mode |-> mode,
                    prompt_max_duration |-> cap]
    /\ last = NoEvent
    /\ last_accept = EmptyMap

\* write, lines 363-382
SinkWriteStart(u, n, loud) ==
    /\ w.pc = "idle"
    /\ nwrites < limits.writes
    /\ nwrites' = nwrites + 1
    /\ initialize_user(u, now)
    /\ w' = [pc |-> IF has_speech(format_audio(n), loud) THEN "speech" ELSE "timer",
             user |-> u, time |-> now, len |-> format_audio(n)]
    /\ last' = NoEvent
    /\ UNCHANGED <<user_speech_start, user_timeout_tasks, tasks, running, c, now,
                   speakers, limits, last_accept>>

\* write, lines 384-398: the start of the speech and of the prompt, the append
SinkWriteSpeech ==
    LET u == w.user
        begins == /\ u \notin DOMAIN user_speech_start
                  /\ limits.prompt_mode
                  /\ ~Get(user_prompt_active, u, FALSE)
                  /\ ~Get(user_prompt_finalizing, u, FALSE)
        active == begins \/ Get(user_prompt_active, u, FALSE)
        number == IF begins THEN c.prompts + 1 ELSE c.prompts
    IN
    /\ w.pc = "speech"
    /\ user_speech_start' = IF u \in DOMAIN user_speech_start THEN user_speech_start
                            ELSE Put(user_speech_start, u, w.time)
    /\ c' = IF begins
            THEN [c EXCEPT !.user_prompt_active = Put(@, u, TRUE),
                           !.user_prompt_finalizing = Put(@, u, FALSE),
                           !.user_prompt_start = Put(@, u, w.time),
                           !.user_prompt_transcriptions = Put(@, u, <<>>),
                           !.prompts = number]
            ELSE c
    /\ user_buffers' =
          [user_buffers EXCEPT ![u] =
              Append(@, [id |-> nwrites, len |-> w.len,
                         \* history: the prompt the chunk is spoken in
                         prompt |-> IF limits.prompt_mode /\ active THEN number ELSE 0])]
    /\ user_last_activity' = Put(user_last_activity, u, w.time)
    /\ w' = [w EXCEPT !.pc = "check"]
    /\ last' = NoEvent
    /\ UNCHANGED <<user_last_packet_time, processing_locks, user_timeout_tasks, tasks,
                   running, now, nwrites, speakers, limits, last_accept>>

\* write, lines 401-443: the full buffer, the hard cap of the prompt, the trim
SinkWriteCheck ==
    LET u == w.user
        full == SumLen(user_buffers[u]) \div 2 >= buffer_duration * sample_rate
        capped == /\ limits.prompt_mode
                  /\ Get(user_prompt_active, u, FALSE)
                  /\ w.time - Get(user_prompt_start, u, w.time) >= limits.prompt_max_duration
                  /\ ~Get(user_prompt_finalizing, u, FALSE)
        flush == SinkTask("flush", u, 0)
    IN
    /\ w.pc = "check"
    /\ tasks' = tasks \o (IF full THEN <<flush>> ELSE <<>>)
                      \o (IF capped THEN <<flush, SinkTask("finalize", u, 0)>> ELSE <<>>)
    /\ c' = IF capped
            THEN [c EXCEPT !.user_prompt_finalizing = Put(@, u, TRUE),
                           !.user_prompt_active = Put(@, u, FALSE)]
            ELSE c
    /\ user_buffers' = [user_buffers EXCEPT ![u] = Trimmed(@)]
    /\ w' = [w EXCEPT !.pc = "timer"]
    /\ last' = [op |-> "check", user |-> u, full |-> full, capped |-> capped]
    /\ UNCHANGED <<user_last_activity, user_speech_start, user_last_packet_time,
                   processing_locks, user_timeout_tasks, running, now, nwrites, speakers,
                   limits, last_accept>>

\* write, lines 447-463: the running timer is cancelled and a new one started
SinkWriteTimer ==
    LET u == w.user
        ts == IF u \in DOMAIN user_timeout_tasks /\ user_timeout_tasks[u] # 0
              THEN RequestCancel(tasks, user_timeout_tasks[u]) ELSE tasks
        timeout_duration == IF limits.prompt_mode /\ Get(user_prompt_active, u, FALSE)
                            THEN prompt_silence_timeout_tenths
                            ELSE silence_timeout_tenths
    IN
    /\ w.pc = "timer"
    /\ user_last_packet_time' = Put(user_last_packet_time, u, w.time)
    /\ tasks' = Append(ts, SinkTask("timer", u, timeout_duration))
    /\ user_timeout_tasks' = Put(user_timeout_tasks, u, Len(tasks) + 1)
    /\ w' = [pc |-> "idle"]
    /\ last' = NoEvent
    /\ UNCHANGED <<user_buffers, user_last_activity, user_speech_start, processing_locks,
                   running, c, now, nwrites, speakers, limits, last_accept>>

\* The entries of user_timeout_tasks after task t has ended: an entry that
\* refers to t is kept, and is written 0 (a future that is done).
SinkRenumber(m, t) ==
    [u \in DOMAIN m |-> IF m[u] = t THEN 0 ELSE IF m[u] > t THEN m[u] - 1 ELSE m[u]]

\* the coroutine of task t ends
SinkDone(t, m) ==
    /\ tasks' = Remove(tasks, t)
    /\ user_timeout_tasks' = SinkRenumber(m, t)
    /\ running' = 0

\* process_user_buffer returns: a flush ends, a timer goes on at line 573
PubReturn(t) ==
    IF tasks[t].kind = "timer"
    THEN /\ tasks' = [tasks EXCEPT ![t].pc = "after"]
         /\ running' = t
         /\ UNCHANGED user_timeout_tasks
    ELSE SinkDone(t, user_timeout_tasks)

\* process_user_buffer, lines 313-316
SinkPubEnter(t) ==
    IF is_processing_locked(tasks[t].user)
    THEN PubReturn(t) /\ UNCHANGED processing_locks
    ELSE /\ processing_locks' = set_processing_lock(tasks[t].user, TRUE)
         /\ tasks' = [tasks EXCEPT ![t].pc = "join"]
         /\ running' = t
         /\ UNCHANGED user_timeout_tasks

\* a submitted process_user_buffer starts
SinkFlushStart(t) ==
    /\ tasks[t].kind = "flush"
    /\ tasks[t].pc = "queued"
    /\ running = 0
    /\ SinkPubEnter(t)
    /\ last' = [op |-> "start", user |-> tasks[t].user,
                entered |-> ~is_processing_locked(tasks[t].user)]
    /\ UNCHANGED <<bufVars, w, c, now, nwrites, speakers, limits, last_accept>>

\* timeout_handler resumes after asyncio.sleep (lines 560-570), or ends at
\* lines 582-583
SinkTimerWake(t) ==
    LET u == tasks[t].user
        fires == u \in DOMAIN user_buffers /\ Len(user_buffers[u]) > 0
    IN  /\ tasks[t].kind = "timer"
        /\ tasks[t].pc = "sleep"
        /\ running = 0
        /\ now >= tasks[t].wake_at
        /\ IF fires
           THEN SinkPubEnter(t)
           ELSE SinkDone(t, Del(user_timeout_tasks, u)) /\ UNCHANGED processing_locks
        /\ last' = [op |-> "wake", user |-> u, fires |-> fires]
        /\ UNCHANGED <<bufVars, w, c, now, nwrites, speakers, limits, last_accept>>

\* process_user_buffer, lines 319-335: the buffer is read and joined, the
\* overlap stored and prepended
SinkJoin(t) ==
    LET u == tasks[t].user
        joined == Pieces(user_buffers[u])
    IN
    /\ tasks[t].pc = "join"
    /\ running = t
    /\ IF Len(user_buffers[u]) = 0
       THEN /\ processing_locks' = set_processing_lock(u, FALSE)
            /\ PubReturn(t)
            /\ last' = [op |-> "empty", user |-> u]
            /\ UNCHANGED c
       ELSE /\ tasks' = [tasks EXCEPT ![t].pc = "clear", ![t].own = joined,
                                      ![t].seg = overlap(u, joined).prefix \o joined]
            /\ c' = [c EXCEPT !.user_overlap_buffers = overlap(u, joined).stored]
            \* history: the overlap that was stored when the flush started
            /\ last' = [op |-> "segment", user |-> u, own |-> joined,
                        prefix |-> overlap(u, joined).prefix,
                        before |-> Get(user_overlap_buffers, u, <<>>)]
            /\ UNCHANGED <<processing_locks, user_timeout_tasks, running>>
    /\ UNCHANGED <<bufVars, w, now, nwrites, speakers, limits, last_accept>>

\* process_user_buffer, lines 337-348, and process_audio_segment up to the
\* await of transcribe_bytes (lines 208-228); an exception of pcm_to_wav is
\* caught at line 259
SinkClear(t) ==
    LET u == tasks[t].user
        seg == tasks[t].seg
        called == LongEnough(seg) /\ ~pcm_to_wav_raises(SumLen(seg))
    IN
    /\ tasks[t].pc = "clear"
    /\ running = t
    /\ user_buffers' = [user_buffers EXCEPT ![u] = <<>>]
    /\ user_speech_start' = Del(user_speech_start, u)
    /\ last' = [op |-> "extract", user |-> u, bytes |-> SumLen(seg), called |-> called]
    /\ IF called
       THEN /\ tasks' = [tasks EXCEPT ![t].pc = "transcribing"]
            /\ running' = 0
            /\ UNCHANGED <<processing_locks, user_timeout_tasks>>
       ELSE /\ processing_locks' = set_processing_lock(u, FALSE)
            /\ PubReturn(t)
    /\ UNCHANGED <<user_last_activity, user_last_packet_time, w, c, now, nwrites,
                   speakers, limits, last_accept>>

\* transcribe_bytes returns or raises; process_audio_segment, lines 235-259:
\* in prompt mode the text of a speaker whose prompt is active is kept for
\* the prompt, any other text is sent; then the finally block of
\* process_user_buffer (lines 354-355)
SinkGatewayReturn(t, r) ==
    LET u == tasks[t].user
        text == transcribed_text(r) # <<>>
        kept == text /\ limits.prompt_mode /\ Get(user_prompt_active, u, FALSE)
    IN
    /\ tasks[t].pc = "transcribing"
    /\ running = 0
    /\ c' = IF kept
            THEN [c EXCEPT !.user_prompt_transcriptions =
                      Put(@, u, Append(Get(@, u, <<>>), tasks[t].own))]
            ELSE c
    /\ processing_locks' = set_processing_lock(u, FALSE)
    /\ PubReturn(t)
    /\ last' = [op |-> "return", user |-> u, text |-> text, kept |-> kept,
                sent |-> text /\ ~kept, prompts |-> Tags(tasks[t].own)]
    /\ UNCHANGED <<bufVars, w, now, nwrites, speakers, limits, last_accept>>

\* finalize_prompt, lines 591-617 (the definition that is in effect): the
\* maps after it, and what it sent
finalize_prompt(cc, u) ==
    LET transcriptions == Get(cc.user_prompt_transcriptions, u, <<>>) IN
    IF transcriptions = <<>>
    THEN [c |-> [cc EXCEPT !.user_prompt_finalizing = Put(@, u, FALSE)],
          last |-> [op |-> "finalize", user |-> u]]
    ELSE [c |-> [cc EXCEPT !.user_prompt_transcriptions = Put(@, u, <<>>),
                           !.user_prompt_finalizing = Put(@, u, FALSE),
                           !.user_prompt_start = Del(@, u)],
          last |-> [op |-> "prompt", user |-> u, segments |-> transcriptions,
                    number |-> cc.prompts]]

\* timeout_handler, lines 573-583
SinkAfter(t) ==
    LET u == tasks[t].user
        finalizes == /\ limits.prompt_mode
                     /\ Get(user_prompt_active, u, FALSE)
                     /\ ~Get(user_prompt_finalizing, u, FALSE)
        marked == [c EXCEPT !.user_prompt_finalizing = Put(@, u, TRUE),
                            !.user_prompt_active = Put(@, u, FALSE)]
    IN
    /\ tasks[t].pc = "after"
    /\ running = t
    /\ c' = IF finalizes THEN finalize_prompt(marked, u).c ELSE c
    /\ last' = IF finalizes THEN finalize_prompt(marked, u).last
               ELSE [op |-> "timeout", user |-> u]
    /\ SinkDone(t, Del(user_timeout_tasks, u))
    /\ UNCHANGED <<bufVars, processing_locks, w, now, nwrites, speakers, limits,
                   last_accept>>

\* a submitted finalize_prompt runs
SinkFinalize(t) ==
    /\ tasks[t].kind = "finalize"
    /\ tasks[t].pc = "queued"
    /\ running = 0
    /\ c' = finalize_prompt(c, tasks[t].user).c
    /\ last' = finalize_prompt(c, tasks[t].user).last
    /\ SinkDone(t, user_timeout_tasks)
    /\ UNCHANGED <<bufVars, processing_locks, w, now, nwrites, speakers, limits,
                   last_accept>>

\* The loop runs task.cancel() for a timer whose future write cancelled: the
\* CancelledError is raised at the await the task is suspended in.  Below
\* process_user_buffer only its finally block runs (line 355); timeout_handler
\* catches the error at line 585, after the lines that remove the entry.
SinkDeliverCancel(t) ==
    /\ tasks[t].kind = "timer"
    /\ tasks[t].cancelReq
    /\ tasks[t].pc \in {"sleep", "transcribing"}
    /\ running = 0
    /\ processing_locks' = IF tasks[t].pc = "transcribing"
                           THEN set_processing_lock(tasks[t].user, FALSE)
                           ELSE processing_locks
    /\ SinkDone(t, user_timeout_tasks)
    /\ last' = [op |-> IF tasks[t].pc = "transcribing" THEN "abort" ELSE "cancel",
                user |-> tasks[t].user]
    /\ UNCHANGED <<bufVars, w, c, now, nwrites, speakers, limits, last_accept>>

\* work the event loop can do at once
SinkLoopReady(t) ==
    \/ tasks[t].pc \in {"queued", "join", "clear", "after"}
    \/ tasks[t].pc = "sleep" /\ now >= tasks[t].wake_at
    \/ tasks[t].cancelReq /\ tasks[t].pc \in {"sleep", "transcribing"}

\* Half a second passes.  write does not block and the loop is never busy for
\* long: the clock does not move while one of them has a step to take.
SinkTick ==
    /\ now + TickTenths <= limits.time
    /\ w.pc = "idle"
    /\ \A t \in TaskIds : ~SinkLoopReady(t)
    /\ now' = now + TickTenths
    /\ last' = NoEvent
    /\ UNCHANGED <<bufVars, processing_locks, user_timeout_tasks, tasks, running, w, c,
                   nwrites, speakers, limits, last_accept>>

NextSink ==
    \/ SinkTick
    \/ \E u \in speakers, n \in limits.sizes, loud \in BOOLEAN : SinkWriteStart(u, n, loud)
    \/ SinkWriteSpeech
    \/ SinkWriteCheck
    \/ SinkWriteTimer
    \/ \E t \in TaskIds : SinkFlushStart(t)
    \/ \E t \in TaskIds : SinkTimerWake(t)
    \/ \E t \in TaskIds : SinkJoin(t)
    \/ \E t \in TaskIds : SinkClear(t)
    \/ \E t \in TaskIds, r \in GatewayResults : SinkGatewayReturn(t, r)
    \/ \E t \in TaskIds : SinkAfter(t)
    \/ \E t \in TaskIds : SinkFinalize(t)
    \/ \E t \in TaskIds : SinkDeliverCancel(t)

SpecSink == InitSink /\ [][NextSink]_vars

\* C31: DiscordAudioSink converts a written stereo packet to mono exactly
\* once: a packet of n bytes, n a multiple of 4, adds n/2 bytes to the
\* speaker's buffer, so that the buffered duration is the capture time
\* n/(sample_rate*4) of the packet.
C31_DownmixedOnce ==
    (w.pc = "timeout" /\ w.size % 4 = 0) =>
        /\ 2 * w.chunk.len = w.size
        /\ \E i \in 1..Len(user_buffers[w.user]) :
              /\ user_buffers[w.user][i].id = w.chunk.id
              /\ 2 * user_buffers[w.user][i].len = w.size

\* C32: in DiscordAudioSink, which takes no processing lock, at most one
\* transcription call per speaker is in flight at any instant: no second
\* timer is armed while a speaker's _timeout_handler has not ended, so a
\* speaker has at most one task, the one user_timeout_tasks refers to.
C32_DiscordOneTranscription ==
    \A u \in Users :
        /\ Cardinality({t \in TaskIds : tasks[t].user = u /\ tasks[t].pc = "transcribing"}) <= 1
        /\ Cardinality({t \in TaskIds : tasks[t].user = u}) <= 1
        /\ \A t \in TaskIds :
              tasks[t].user = u =>
                  u \in DOMAIN user_timeout_tasks /\ user_timeout_tasks[u] = t

\* a packet was written while the speaker's transcription was in flight, and
\* no timer was armed for it
C32_Witness ==
    /\ w.pc = "idle"
    /\ Len(tasks) = 1 /\ tasks[1].user = "A" /\ tasks[1].pc = "transcribing"
    /\ get_buffer_duration("A") > 0
    /\ last_accept["A"] >= tasks[1].wake_at

\* C33: a process_user_buffer call that finds the speaker's processing lock
\* held does nothing: the buffers, the speech-start times, the locks and the
\* pending timers are unchanged, no task reaches the gateway, and the call is
\* over: it is not kept for later (only the entry of the timeout_handler that
\* made the call is removed, by the handler's own finally block).
C33_LockedFlushNoOp ==
    [][((last'.op = "start" \/ (last'.op = "wake" /\ last'.fires)) /\ ~last'.entered) =>
          /\ bufVars' = bufVars
          /\ processing_locks' = processing_locks
          /\ is_processing_locked(last'.user)
          /\ \E t \in TaskIds :
                /\ tasks[t].user = last'.user
                /\ tasks[t].pc \in {"queued", "sleep"}
                /\ tasks' = Remove(tasks, t)
                /\ user_timeout_tasks' =
                      Renumber(IF last'.op = "wake"
                               THEN Del(user_timeout_tasks, last'.user)
                               ELSE user_timeout_tasks, t)]_vars

\* a flush that write submitted found the lock held by a transcription in
\* flight; the audio written since is still in the buffer
C33_Witness ==
    /\ last.op = "start" /\ ~last.entered
    /\ is_processing_locked(last.user)
    /\ get_buffer_duration(last.user) > 0
    /\ \E t \in TaskIds : tasks[t].user = last.user /\ tasks[t].pc = "transcribing"

\* C34: for one speaker the segments passed to the gateway are disjoint,
\* consecutive pieces of the speaker's appended audio in arrival order (an
\* extraction leaves out no chunk that was appended before it and is not in
\* an earlier segment), and the answers of the gateway are handled in the
\* order the segments were extracted in, whatever the latencies: no segment
\* extracted earlier is still in flight when an answer is handled.
C34_SegmentsInOrder ==
    /\ [](\A t \in TaskIds : \A t2 \in TaskIds \ {t} :
            Ids(tasks[t].seg) \cap Ids(tasks[t2].seg) = {})
    /\ [](last.op = "extract" => ~last.lost)
    /\ [][last'.op = "return" =>
            \E t \in TaskIds :
                /\ tasks[t].pc = "transcribing"
                /\ tasks' = Remove(tasks, t)
                /\ \A t2 \in TaskIds \ {t} :
                      (tasks[t2].user = tasks[t].user /\ tasks[t2].pc = "transcribing")
                          => \A i \in Ids(tasks[t].seg), j \in Ids(tasks[t2].seg) : i < j]_vars

\* C35: BufferManager.add_audio_chunk called for a speaker that has no session
\* creates the session, appends the chunk and records the start time and the
\* last-packet time, instead of failing
C35_AppendCreatesSession ==
    (last.op = "call" /\ last.fn = "add_audio_chunk" /\ ~last.known) =>
        /\ last.ret = "None"
        /\ last.user \in DOMAIN user_buffers
        /\ Len(user_buffers[last.user]) = 1
        /\ user_buffers[last.user][1].id = nwrites
        /\ last.user \in DOMAIN user_speech_start
        /\ user_speech_start[last.user] = now
        /\ last.user \in DOMAIN user_last_packet_time
        /\ user_last_packet_time[last.user] = now

\* C36: every step either leaves a speaker's buffered byte count unchanged,
\* increases it by the chunk that write appends, or resets it to zero (the
\* extraction of a flush, or cleanup); the count never decreases to a
\* non-zero value
C36_BufferedNeverShrinks ==
    [][\A u \in Users :
          LET before == SumLen(Get(user_buffers, u, <<>>))
              after == SumLen(Get(user_buffers', u, <<>>))
          IN  /\ after > before =>
                    /\ w.pc = "add" /\ w.user = u
                    /\ after = before + w.chunk.len
              /\ after < before =>
                    /\ after = 0
                    /\ \/ last'.op = "extract" /\ last'.user = u
                       \/ c.pc = "idle" /\ c'.pc = "timers"]_vars

\* a flush has extracted a non-empty segment and the buffer is empty
C36_Witness ==
    /\ last.op = "extract"
    /\ last.bytes > 0
    /\ last.user \in DOMAIN user_buffers
    /\ SumLen(user_buffers[last.user]) = 0
    /\ c.calls > 0

\* C37: after DiscordAudioSink.cleanup returns, user_timeout_tasks is empty and
\* no speaker has buffered audio
C37_DiscordCleanupClears ==
    last.op = "cleanup" =>
        /\ user_timeout_tasks = EmptyMap
        /\ \A u \in Users : Len(Get(user_buffers, u, <<>>)) = 0

\* C38: the overlap that process_user_buffer of the overlap-retaining sink
\* prepends to a segment is the tail that was stored by an earlier flush, and
\* never the tail of the audio that is being flushed
C38_OverlapFromPreviousFlush ==
    last.op = "segment" =>
        /\ last.prefix = last.before
        /\ last.prefix # LastBytes(last.own, overlap_samples)

\* C39: in prompt mode, the text of a segment spoken in a prompt is kept for
\* the [PROMPT] message and not sent as a message of its own, and when the
\* [PROMPT] message of a prompt is sent, no segment of that prompt is still
\* being transcribed
C39_PromptComplete ==
    /\ (last.op = "return" /\ last.text /\ last.prompts # {0}) => last.kept
    /\ last.op = "prompt" =>
          \A t \in TaskIds :
              (tasks[t].user = last.user /\ tasks[t].pc = "transcribing")
                  => last.number \notin Tags(tasks[t].own)

====
